---------------------------- MODULE Spec2Model ----------------------------
(***************************************************************************)
(* FinanceTracker: the transaction validation pipeline (zod schemas, the   *)
(* notes sanitizer, the date validator), the create/update transaction     *)
(* routes, the receipt-scan flow and the in-memory per-user rate limiter.  *)
(*                                                                         *)
(* Text is a sequence of one-character strings, so that the regular        *)
(* expressions of the source are computed on characters.  A JavaScript     *)
(* value is a record tagged with its type.                                 *)
(***************************************************************************)
EXTENDS Integers, Sequences, FiniteSets, TLC

VARIABLES
    call,            \* pure functions: the last application [fn, arg, out]
    rateLimitStore,  \* src/lib/rate-limit.ts:16  Map<string, RateLimitEntry>
    now,             \* Date.now(), in milliseconds
    config,          \* the RateLimitConfig the limiter is exercised with
    rl,              \* the last rate-limited request and its outcome
    win,             \* history: per key, the current window's first request
    transactions,    \* the store's transactions table
    resp,            \* the last API request and its response
    today,           \* new Date(), as the UTC calendar date <<y, m, d>>
    dateRollover,    \* whether Date.parse rolls an overlong month over
    categories,      \* the store's categories, ordered by name (their ids)
    paymentSources,  \* the store's payment_sources, ordered by name
    rowLevelSecurity, \* whether the store hides other users' transactions
    inflight,        \* the server's requests in flight: slot -> position
    chat             \* the AIChat component: state, ref, timers, requests

limiterVars == <<rateLimitStore, now, config, rl, win>>
routeVars == <<transactions, resp>>
env == <<today, dateRollover, categories, paymentSources, rowLevelSecurity>>

asyncVars == <<inflight, chat>>

vars == <<call, limiterVars, routeVars, env, asyncVars>>

-----------------------------------------------------------------------------
(* JavaScript values *)

Null == [t |-> "null"]
Undefined == [t |-> "undefined"]
Str(s) == [t |-> "string", s |-> s]
Num(n) == [t |-> "number", n |-> n]

IsStr(v) == v.t = "string"
IsNum(v) == v.t = "number"

\* !v for the values of the model: null, undefined, "" and 0 are falsy
Falsy(v) ==
    \/ v.t \in {"null", "undefined"}
    \/ IsStr(v) /\ v.s = <<>>
    \/ IsNum(v) /\ v.n = 0

\* the text of n characters c
Rep(c, n) == [k \in 1..n |-> c]

-----------------------------------------------------------------------------
(* sanitizeHtml, src/lib/rate-limit.ts:101-109 *)

WordChars ==
    {"a","b","c","d","e","f","g","h","i","j","k","l","m","n","o","p","q","r",
     "s","t","u","v","w","x","y","z",
     "A","B","C","D","E","F","G","H","I","J","K","L","M","N","O","P","Q","R",
     "S","T","U","V","W","X","Y","Z",
     "0","1","2","3","4","5","6","7","8","9","_"}

WhiteSpace == {" ", "\t", "\n", "\r"}

\* the i flag, on the letters of "script"
Lower(c) ==
    CASE c = "S" -> "s" [] c = "C" -> "c" [] c = "R" -> "r"
      [] c = "I" -> "i" [] c = "P" -> "p" [] c = "T" -> "t"
      [] OTHER -> c

\* the literal pat matches s at position i, ignoring case
MatchesAt(s, i, pat) ==
    /\ i + Len(pat) - 1 <= Len(s)
    /\ \A k \in 1..Len(pat) : Lower(s[i + k - 1]) = pat[k]

ScriptOpen == <<"<", "s", "c", "r", "i", "p", "t">>
ScriptClose == <<"<", "/", "s", "c", "r", "i", "p", "t", ">">>

\* the first index >= i where s holds c, or 0
IndexOf(s, c, i) ==
    IF \E k \in i..Len(s) : s[k] = c
    THEN CHOOSE k \in i..Len(s) :
             s[k] = c /\ \A j \in i..(k - 1) : s[j] # c
    ELSE 0

\* the first index >= i where </script> starts, or 0
CloseAt(s, i) ==
    IF \E k \in i..Len(s) : MatchesAt(s, k, ScriptClose)
    THEN CHOOSE k \in i..Len(s) :
             /\ MatchesAt(s, k, ScriptClose)
             /\ \A j \in i..(k - 1) : ~MatchesAt(s, j, ScriptClose)
    ELSE 0

\* /<script\b[^<]*(?:(?!<\/script>)<[^<]*)*<\/script>/gi at position i:
\* the index of the match's last character, or 0.  After "<script" and the
\* word boundary, [^<]* and the group run from one "<" to the next and can
\* only stop at the first "</script>".
ScriptEnd(s, i) ==
    IF /\ MatchesAt(s, i, ScriptOpen)
       /\ i + 7 <= Len(s)
       /\ s[i + 7] \notin WordChars
       /\ CloseAt(s, i + 7) # 0
    THEN CloseAt(s, i + 7) + 8
    ELSE 0

\* the first index >= i where the script pattern matches, or 0
NextScript(s, i) ==
    IF \E k \in i..Len(s) : ScriptEnd(s, k) # 0
    THEN CHOOSE k \in i..Len(s) :
             ScriptEnd(s, k) # 0 /\ \A j \in i..(k - 1) : ScriptEnd(s, j) = 0
    ELSE 0

\* .replace(/<script...<\/script>/gi, ''): the text from i on, the matches
\* taken from left to right; at is the start of the next match
RECURSIVE StripScriptsAt(_, _, _)
StripScriptsAt(s, i, at) ==
    IF at = 0 THEN SubSeq(s, i, Len(s))
    ELSE SubSeq(s, i, at - 1)
           \o StripScriptsAt(s, ScriptEnd(s, at) + 1,
                             NextScript(s, ScriptEnd(s, at) + 1))

StripScripts(s, i) == StripScriptsAt(s, i, NextScript(s, i))

\* /<[^>]+>/ (open = "<", close = ">") or /&[^;]+;/ (open = "&", close =
\* ";") matches at k: an open whose first close to the right is at least
\* two places on
DelimitedAt(s, k, open, close) ==
    /\ s[k] = open
    /\ k + 1 <= Len(s)
    /\ s[k + 1] # close
    /\ IndexOf(s, close, k + 1) # 0

\* the first index >= i where the pattern matches, or 0
NextDelimited(s, i, open, close) ==
    IF \E k \in i..Len(s) : DelimitedAt(s, k, open, close)
    THEN CHOOSE k \in i..Len(s) :
             /\ DelimitedAt(s, k, open, close)
             /\ \A j \in i..(k - 1) : ~DelimitedAt(s, j, open, close)
    ELSE 0

\* the text from i on without the matches, taken from left to right; at is
\* the start of the next match
RECURSIVE StripDelimitedAt(_, _, _, _, _)
StripDelimitedAt(s, i, at, open, close) ==
    IF at = 0 THEN SubSeq(s, i, Len(s))
    ELSE SubSeq(s, i, at - 1)
           \o StripDelimitedAt(s, IndexOf(s, close, at + 1) + 1,
                  NextDelimited(s, IndexOf(s, close, at + 1) + 1, open, close),
                  open, close)

\* .replace(/<[^>]+>/g, '') with open = "<" and close = ">", and
\* .replace(/&[^;]+;/g, '') with open = "&" and close = ";"
StripDelimited(s, i, open, close) ==
    StripDelimitedAt(s, i, NextDelimited(s, i, open, close), open, close)

RECURSIVE TrimStart(_)
TrimStart(s) ==
    IF s # <<>> /\ Head(s) \in WhiteSpace THEN TrimStart(Tail(s)) ELSE s

RECURSIVE TrimEnd(_)
TrimEnd(s) ==
    IF s # <<>> /\ s[Len(s)] \in WhiteSpace
    THEN TrimEnd(SubSeq(s, 1, Len(s) - 1)) ELSE s

\* String.prototype.trim
Trim(s) == TrimEnd(TrimStart(s))

\* sanitizeHtml without the pass over the entity references
sanitizeHtmlKeepEntities(input) ==
    IF Falsy(input) THEN Null
    ELSE Str(Trim(StripDelimited(StripScripts(input.s, 1), 1, "<", ">")))

sanitizeHtml(input) ==
    IF Falsy(input) THEN Null
    ELSE Str(Trim(StripDelimited(
                 StripDelimited(StripScripts(input.s, 1), 1, "<", ">"),
                 1, "&", ";")))

-----------------------------------------------------------------------------
(* validateDate, src/lib/rate-limit.ts:114-124 *)

Digits == <<"0", "1", "2", "3", "4", "5", "6", "7", "8", "9">>
DigitChars == {Digits[k] : k \in 1..10}

DigitVal(c) == CHOOSE n \in 0..9 : Digits[n + 1] = c

\* /^\d{4}-\d{2}-\d{2}$/
MatchesDateRegex(s) ==
    /\ Len(s) = 10
    /\ \A k \in {1, 2, 3, 4, 6, 7, 9, 10} : s[k] \in DigitChars
    /\ s[5] = "-"
    /\ s[8] = "-"

IsLeapYear(y) == y % 4 = 0 /\ (y % 100 # 0 \/ y % 400 = 0)

DaysInMonth(y, m) ==
    IF m = 2 THEN (IF IsLeapYear(y) THEN 29 ELSE 28)
    ELSE IF m \in {4, 6, 9, 11} THEN 30
    ELSE 31

InvalidDate == <<0, 0, 0>>

\* MakeDay: a day past the end of its month runs into the next month
\* (December has 31 days, so the year never changes here)
NormalizeDate(y, m, d) ==
    IF d > DaysInMonth(y, m) THEN <<y, m + 1, d - DaysInMonth(y, m)>>
    ELSE <<y, m, d>>

\* new Date(dateString) for a string that matched the regex, as the UTC
\* date <<y, m, d>> or InvalidDate.  A month outside 01..12 or a day outside
\* 01..31 gives Invalid Date.  For a day of 29..31 that its month does not
\* have, ECMA-262 leaves the result to the engine: V8 (Node.js, which runs
\* the route) normalizes it into the next month, other engines give
\* Invalid Date; dateRollover says which.
ParseDate(s) ==
    LET y == DigitVal(s[1]) * 1000 + DigitVal(s[2]) * 100
             + DigitVal(s[3]) * 10 + DigitVal(s[4])
        m == DigitVal(s[6]) * 10 + DigitVal(s[7])
        d == DigitVal(s[9]) * 10 + DigitVal(s[10])
    IN  IF m \notin 1..12 \/ d \notin 1..31 THEN InvalidDate
        ELSE IF d > DaysInMonth(y, m) /\ ~dateRollover THEN InvalidDate
        ELSE NormalizeDate(y, m, d)

\* a <= b on dates
DateLE(a, b) ==
    \/ a[1] < b[1]
    \/ a[1] = b[1] /\ a[2] < b[2]
    \/ a[1] = b[1] /\ a[2] = b[2] /\ a[3] <= b[3]

MinDate == <<1900, 1, 1>>

\* maxDate.setFullYear(maxDate.getFullYear() + 1)
MaxDate == NormalizeDate(today[1] + 1, today[2], today[3])

validateDate(dateString) ==
    IF ~MatchesDateRegex(dateString) THEN FALSE
    ELSE LET date == ParseDate(dateString)
         IN  /\ date # InvalidDate
             /\ DateLE(MinDate, date)
             /\ DateLE(date, MaxDate)

\* toISOString().split('T')[0] of the date <<y, m, d>>
Pad2(n) == <<Digits[((n \div 10) % 10) + 1], Digits[(n % 10) + 1]>>
Pad4(n) == Pad2(n \div 100) \o Pad2(n % 100)
ISODate(y, m, d) == Pad4(y) \o <<"-">> \o Pad2(m) \o <<"-">> \o Pad2(d)

-----------------------------------------------------------------------------
(* The zod schemas, src/lib/rate-limit.ts:133-266.  An issue is a record   *)
(* [path, message]; safeParse gives [success, errors, data].               *)

Issue(path, message) == [path |-> path, message |-> message]

MAX_AMOUNT == 1000000000
MAX_NOTES == 1000

HexChars ==
    DigitChars \cup {"a", "b", "c", "d", "e", "f", "A", "B", "C", "D", "E", "F"}

\* z.string().uuid(): 8-4-4-4-12 hexadecimal groups
IsUuid(s) ==
    /\ Len(s) = 36
    /\ \A k \in 1..36 :
          IF k \in {9, 14, 19, 24} THEN s[k] = "-" ELSE s[k] \in HexChars

\* z.string().url(): new URL(s) accepts s; here a scheme of letters, then
\* ":" and something after it
IsUrl(s) ==
    LET c == IndexOf(s, ":", 1)
    IN  /\ c > 1
        /\ c < Len(s)
        /\ \A k \in 1..(c - 1) : s[k] \in WordChars \ (DigitChars \cup {"_"})

Income == <<"i", "n", "c", "o", "m", "e">>
Expense == <<"e", "x", "p", "e", "n", "s", "e">>

\* amountIssues with the lower bound of the receipt schema: .min(0), and no
\* refinement
amountIssuesMin0(v) ==
    IF v.t = "undefined" THEN <<Issue("amount", "Amount is required")>>
    ELSE IF ~IsNum(v) THEN <<Issue("amount", "Amount must be a number")>>
    ELSE (IF v.n >= 0 THEN <<>>
          ELSE <<Issue("amount", "Amount cannot be negative")>>)
      \o (IF v.n <= MAX_AMOUNT THEN <<>>
          ELSE <<Issue("amount", "Amount exceeds maximum limit (1 billion)")>>)

\* amount: z.number().positive().max(1000000000).refine(val !== 0)
\* (a failed check leaves the value dirty, and the refinement still runs)
amountIssues(v) ==
    IF v.t = "undefined" THEN <<Issue("amount", "Amount is required")>>
    ELSE IF ~IsNum(v) THEN <<Issue("amount", "Amount must be a number")>>
    ELSE (IF v.n > 0 THEN <<>>
          ELSE <<Issue("amount", "Amount must be greater than 0")>>)
      \o (IF v.n <= MAX_AMOUNT THEN <<>>
          ELSE <<Issue("amount", "Amount exceeds maximum limit (1 billion)")>>)
      \o (IF v.n # 0 THEN <<>>
          ELSE <<Issue("amount", "Amount cannot be zero")>>)

\* type: z.enum(['income', 'expense'])
typeIssues(v) ==
    IF v.t = "undefined" THEN <<Issue("type", "Transaction type is required")>>
    ELSE IF ~IsStr(v)
    THEN <<Issue("type", "Type must be either \"income\" or \"expense\"")>>
    ELSE IF v.s \in {Income, Expense} THEN <<>>
    ELSE <<Issue("type", "Invalid enum value")>>

\* date: z.string().regex(...).refine(validateDate)
dateIssues(v) ==
    IF v.t = "undefined" THEN <<Issue("date", "Date is required")>>
    ELSE IF ~IsStr(v) THEN <<Issue("date", "Expected string")>>
    ELSE (IF MatchesDateRegex(v.s) THEN <<>>
          ELSE <<Issue("date", "Date must be in YYYY-MM-DD format")>>)
      \o (IF validateDate(v.s) THEN <<>>
          ELSE <<Issue("date",
                       "Date must be between 1900-01-01 and 1 year from today")>>)

\* category, payment_source: z.string({required_error}).uuid(message)
uuidIssues(v, path, required, message) ==
    IF v.t = "undefined" THEN <<Issue(path, required)>>
    ELSE IF ~IsStr(v) THEN <<Issue(path, "Expected string")>>
    ELSE IF IsUuid(v.s) THEN <<>>
    ELSE <<Issue(path, message)>>

\* notes: z.string().max(1000).nullable().optional(), before the transform
notesIssues(v) ==
    IF v.t \in {"undefined", "null"} THEN <<>>
    ELSE IF ~IsStr(v) THEN <<Issue("notes", "Expected string")>>
    ELSE IF Len(v.s) <= MAX_NOTES THEN <<>>
    ELSE <<Issue("notes", "Notes cannot exceed 1000 characters")>>

\* image_url: z.union([z.string().url(), z.null()]).optional()
imageUrlIssues(v) ==
    IF v.t \in {"undefined", "null"} THEN <<>>
    ELSE IF IsStr(v) /\ IsUrl(v.s) THEN <<>>
    ELSE <<Issue("image_url", "Image URL must be a valid URL")>>

\* user_id: z.string().uuid().optional()
userIdIssues(v) ==
    IF v.t = "undefined" THEN <<>>
    ELSE IF ~IsStr(v) THEN <<Issue("user_id", "Expected string")>>
    ELSE IF IsUuid(v.s) THEN <<>>
    ELSE <<Issue("user_id", "User ID must be a valid UUID")>>

\* transactionSchema stopping at the first issue
transactionSchemaFirstIssue(input) ==
    LET errors ==
            amountIssues(input.amount) \o typeIssues(input.type)
            \o dateIssues(input.date)
            \o uuidIssues(input.category, "category", "Category is required",
                          "Category must be a valid UUID")
            \o uuidIssues(input.payment_source, "payment_source",
                          "Payment source is required",
                          "Payment source must be a valid UUID")
            \o notesIssues(input.notes) \o imageUrlIssues(input.image_url)
            \o userIdIssues(input.user_id)
    IN  [success |-> errors = <<>>,
         errors |-> IF errors = <<>> THEN <<>> ELSE <<errors[1]>>,
         data |-> IF errors # <<>> THEN Undefined
                  ELSE [amount |-> input.amount,
                        type |-> input.type,
                        date |-> input.date,
                        category |-> input.category,
                        payment_source |-> input.payment_source,
                        notes |-> sanitizeHtml(input.notes),
                        image_url |-> input.image_url,
                        user_id |-> input.user_id]]

\* transactionSchema.safeParse(input): every field is checked and all the
\* issues are collected; keys outside the shape are stripped; notes are
\* transformed by sanitizeHtml
transactionSchema(input) ==
    LET errors ==
            amountIssues(input.amount) \o typeIssues(input.type)
            \o dateIssues(input.date)
            \o uuidIssues(input.category, "category", "Category is required",
                          "Category must be a valid UUID")
            \o uuidIssues(input.payment_source, "payment_source",
                          "Payment source is required",
                          "Payment source must be a valid UUID")
            \o notesIssues(input.notes) \o imageUrlIssues(input.image_url)
            \o userIdIssues(input.user_id)
    IN  [success |-> errors = <<>>,
         errors |-> errors,
         data |-> IF errors # <<>> THEN Undefined
                  ELSE [amount |-> input.amount,
                        type |-> input.type,
                        date |-> input.date,
                        category |-> input.category,
                        payment_source |-> input.payment_source,
                        notes |-> sanitizeHtml(input.notes),
                        image_url |-> input.image_url,
                        user_id |-> input.user_id]]

-----------------------------------------------------------------------------
(* Applications of the validators and of the sanitizer to bounded inputs   *)

MaxLen == 4

SanAlphabet == {"<", ">", "&", ";", "a", " "}

\* every text of at most MaxLen characters of SanAlphabet
ShortTexts == UNION {[1..k -> SanAlphabet] : k \in 0..MaxLen}

Lunch == <<"L", "u", "n", "c", "h">>
Alert == <<"a", "l", "e", "r", "t", "(", "1", ")">>

ScriptTexts ==
    { ScriptOpen \o <<">">> \o Alert \o ScriptClose \o Lunch,
      ScriptOpen \o <<">">> \o Alert \o ScriptClose,
      <<"<", "S", "C", "R", "I", "P", "T", ">">> \o Alert
          \o <<"<", "/", "S", "c", "r", "i", "p", "t", ">">> \o Lunch,
      <<"<", "s", "c", "r">> \o ScriptOpen \o <<">">> \o ScriptClose
          \o <<"i", "p", "t", ">">> \o Alert \o ScriptClose,
      ScriptOpen \o <<" ", "a", ">">> \o <<"<", "b", ">">> \o ScriptClose
          \o <<"&", "l", "t", ";">> \o Lunch,
      ScriptOpen \o <<"s", ">">> \o Alert \o ScriptClose,
      ScriptOpen \o <<">">> \o Alert,
      <<"<", "b", ">">> \o Lunch \o <<"<", "/", "b", ">">>,
      <<"&", "a", "m", "p", ";">> \o Lunch \o <<" ">> }

SanitizerInputs ==
    {Null, Undefined} \cup {Str(x) : x \in ShortTexts \cup ScriptTexts}

AmountInputs ==
    {Undefined, Null, Str(<<"5", "0">>)}
      \cup {Num(n) : n \in {-5, -1, 0, 1, 50, MAX_AMOUNT - 1, MAX_AMOUNT,
                            MAX_AMOUNT + 1, 2 * MAX_AMOUNT}}

Todays == {<<2024, 3, 15>>, <<2023, 12, 30>>}

DateYears == {1899, 1900, 2023, 2024, 2025, 2026}
DateMonths == {0, 1, 2, 3, 4, 12, 13}
DateDays == {0, 1, 15, 16, 28, 29, 30, 31, 32}

MalformedDates ==
    { <<>>,
      <<"2", "0", "2", "4", "-", "3", "-", "1", "5">>,
      <<"1", "5", "/", "0", "3", "/", "2", "0", "2", "4">>,
      <<"2", "0", "2", "4", "/", "0", "3", "/", "1", "5">>,
      <<"2", "0", "2", "4", "-", "0", "3", "-", "1", "5", "T">>,
      <<" ", "2", "0", "2", "4", "-", "0", "3", "-", "1", "5">>,
      <<"2", "0", "2", "4", "-", "0", "3", "-", "1", "a">>,
      <<"2", "0", "2", "4", "0", "3", "1", "5", "0", "0">> }

DateInputs ==
    MalformedDates
      \cup {ISODate(y, m, d) : y \in DateYears, m \in DateMonths, d \in DateDays}

IdleCall == [fn |-> "idle"]

\* sanitizeHtml applied to x
ApplySanitize ==
    /\ call = IdleCall
    /\ \E x \in SanitizerInputs :
          call' = [fn |-> "sanitizeHtml", arg |-> x, out |-> sanitizeHtml(x),
                   again |-> FALSE, first |-> x]
    /\ UNCHANGED <<limiterVars, routeVars, env, asyncVars>>

\* sanitizeHtml applied to its own result; first keeps the original input
ApplySanitizeAgain ==
    /\ call.fn = "sanitizeHtml"
    /\ ~call.again
    /\ call' = [fn |-> "sanitizeHtml", arg |-> call.out,
                out |-> sanitizeHtml(call.out), again |-> TRUE,
                first |-> call.first]
    /\ UNCHANGED <<limiterVars, routeVars, env, asyncVars>>

-----------------------------------------------------------------------------
(* The rate limiter, src/lib/rate-limit.ts:10-93 *)

\* a field that the returned object does not carry
Absent == -1

\* 8-4-4-4-12 with the one hexadecimal digit h
UuidOf(h) ==
    Rep(h, 8) \o <<"-">> \o Rep(h, 4) \o <<"-">> \o Rep(h, 4) \o <<"-">>
        \o Rep(h, 4) \o <<"-">> \o Rep(h, 12)

UserA == UuidOf("a")
UserB == UuidOf("b")
Users == {UserA, UserB}

\* one key for every user
RateKeyShared(userId) == UserA

\* const key = userId
RateKey(userId) == userId

\* checkRateLimit comparing the count with > where the source has >=
checkRateLimitOneMore(store, userId, cfg, t) ==
    LET entry == store[userId]
    IN  IF entry = Undefined \/ entry.resetTime < t
        THEN [store |-> [store EXCEPT ![userId] =
                             [count |-> 1, resetTime |-> t + cfg.window]],
              result |-> [success |-> TRUE, resetTime |-> -1,
                          remaining |-> cfg.limit - 1]]
        ELSE IF entry.count > cfg.limit
        THEN [store |-> store,
              result |-> [success |-> FALSE, resetTime |-> entry.resetTime,
                          remaining |-> -1]]
        ELSE [store |-> [store EXCEPT ![userId] =
                             [count |-> entry.count + 1,
                              resetTime |-> entry.resetTime]],
              result |-> [success |-> TRUE, resetTime |-> -1,
                          remaining |-> cfg.limit - (entry.count + 1)]]

\* checkRateLimit for which the window has ended at resetTime
checkRateLimitEndsAtReset(store, userId, cfg, t) ==
    LET entry == store[userId]
    IN  IF entry = Undefined \/ entry.resetTime <= t
        THEN [store |-> [store EXCEPT ![userId] =
                             [count |-> 1, resetTime |-> t + cfg.window]],
              result |-> [success |-> TRUE, resetTime |-> -1,
                          remaining |-> cfg.limit - 1]]
        ELSE IF entry.count >= cfg.limit
        THEN [store |-> store,
              result |-> [success |-> FALSE, resetTime |-> entry.resetTime,
                          remaining |-> -1]]
        ELSE [store |-> [store EXCEPT ![userId] =
                             [count |-> entry.count + 1,
                              resetTime |-> entry.resetTime]],
              result |-> [success |-> TRUE, resetTime |-> -1,
                          remaining |-> cfg.limit - (entry.count + 1)]]

\* checkRateLimit whose denial starts the wait anew
checkRateLimitPushBack(store, userId, cfg, t) ==
    LET entry == store[userId]
    IN  IF entry = Undefined \/ entry.resetTime < t
        THEN [store |-> [store EXCEPT ![userId] =
                             [count |-> 1, resetTime |-> t + cfg.window]],
              result |-> [success |-> TRUE, resetTime |-> -1,
                          remaining |-> cfg.limit - 1]]
        ELSE IF entry.count >= cfg.limit
        THEN [store |-> [store EXCEPT ![userId].resetTime = t + cfg.window],
              result |-> [success |-> FALSE, resetTime |-> t + cfg.window,
                          remaining |-> -1]]
        ELSE [store |-> [store EXCEPT ![userId] =
                             [count |-> entry.count + 1,
                              resetTime |-> entry.resetTime]],
              result |-> [success |-> TRUE, resetTime |-> -1,
                          remaining |-> cfg.limit - (entry.count + 1)]]

\* checkRateLimit whose increment is lost: the entry it writes back is the
\* one it read
checkRateLimitLostUpdate(store, userId, cfg, t) ==
    LET entry == store[userId]
    IN  IF entry = Undefined \/ entry.resetTime < t
        THEN [store |-> [store EXCEPT ![userId] =
                             [count |-> 1, resetTime |-> t + cfg.window]],
              result |-> [success |-> TRUE, resetTime |-> -1,
                          remaining |-> cfg.limit - 1]]
        ELSE IF entry.count >= cfg.limit
        THEN [store |-> store,
              result |-> [success |-> FALSE, resetTime |-> entry.resetTime,
                          remaining |-> -1]]
        ELSE [store |-> store,
              result |-> [success |-> TRUE, resetTime |-> -1,
                          remaining |-> cfg.limit - (entry.count + 1)]]

\* checkRateLimit(userId, cfg) called at time t on the map store: the map
\* afterwards and the returned object
checkRateLimit(store, userId, cfg, t) ==
    LET key == RateKey(userId)
        entry == store[key]
    IN  IF entry = Undefined \/ entry.resetTime < t
        THEN [store |-> [store EXCEPT ![key] =
                             [count |-> 1, resetTime |-> t + cfg.window]],
              result |-> [success |-> TRUE, resetTime |-> Absent,
                          remaining |-> cfg.limit - 1]]
        ELSE IF entry.count >= cfg.limit
        THEN [store |-> store,
              result |-> [success |-> FALSE, resetTime |-> entry.resetTime,
                          remaining |-> Absent]]
        ELSE [store |-> [store EXCEPT ![key] =
                             [count |-> entry.count + 1,
                              resetTime |-> entry.resetTime]],
              result |-> [success |-> TRUE, resetTime |-> Absent,
                          remaining |-> cfg.limit - (entry.count + 1)]]

\* the callback deleting the entries with resetTime <= now
sweepThrough(store, t) ==
    [k \in DOMAIN store |->
        IF store[k] # Undefined /\ store[k].resetTime <= t THEN Undefined
        ELSE store[k]]

\* the setInterval callback: every entry with resetTime < now is deleted
sweep(store, t) ==
    [k \in DOMAIN store |->
        IF store[k] # Undefined /\ store[k].resetTime < t THEN Undefined
        ELSE store[k]]

\* return { success: true } of the catch block, rate-limit.ts:79-84
Caught == [success |-> TRUE, resetTime |-> Absent, remaining |-> Absent]

\* the limiter whose catch block denies the request
checkRateLimitFailClosed(store, userId, cfg, t, threw) ==
    IF threw = "none" THEN checkRateLimit(store, userId, cfg, t)
    ELSE [store |-> store,
          result |-> [success |-> FALSE, resetTime |-> Absent,
                      remaining |-> Absent]]

\* checkRateLimit when a statement of its try block throws: threw names the
\* statement ("get": rateLimitStore.get, "set": rateLimitStore.set, "none").
\* A set that throws on the path that increments comes after entry.count++
\* has changed the entry held by the map; the path that denies calls no set.
checkRateLimitTry(store, userId, cfg, t, threw) ==
    IF threw = "get" THEN [store |-> store, result |-> Caught]
    ELSE IF threw = "set"
            /\ (store[RateKey(userId)] = Undefined
                \/ store[RateKey(userId)].resetTime < t)
    THEN [store |-> store, result |-> Caught]
    ELSE IF threw = "set" /\ store[RateKey(userId)].count < cfg.limit
    THEN [store |-> [store EXCEPT ![RateKey(userId)].count = @ + 1],
          result |-> Caught]
    ELSE checkRateLimit(store, userId, cfg, t)

AI_CHAT == [limit |-> 10, window |-> 60 * 1000]
RECEIPT == [limit |-> 20, window |-> 60 * 1000]

EmptyRateLimitStore == [k \in Users |-> Undefined]

IdleRl == [route |-> "idle"]

\* history: no request seen yet
NoWindow == [start |-> Absent, n |-> 0, opened |-> 0]

MaxLimit == 2
MaxWindow == 3
MaxTime == 7
MaxExtra == 2

LimiterConfigs ==
    {[limit |-> l, window |-> w] : l \in 1..MaxLimit, w \in 2..MaxWindow}

\* history of the calls of one user under one config: a call at t opens a
\* window when it is the first or when the window of the last opening call
\* has elapsed (t > start + window); otherwise it is one more call of the
\* open window
NextWindow(w, t, cfg) ==
    IF w = NoWindow \/ t > w.start + cfg.window
    THEN [start |-> t, n |-> 1, opened |-> w.opened + 1]
    ELSE [start |-> w.start, n |-> w.n + 1, opened |-> w.opened]

\* one call checkRateLimit(u, config) at the current time
LimiterCall(u) ==
    LET r == checkRateLimit(rateLimitStore, u, config, now)
        w == NextWindow(win[u], now, config)
    IN  /\ w.n <= config.limit + MaxExtra
        /\ rateLimitStore' = r.store
        /\ rl' = [route |-> "call", user |-> u, at |-> now,
                  result |-> r.result, entry |-> r.store[RateKey(u)]]
        /\ win' = [win EXCEPT ![u] = w]
        /\ UNCHANGED <<call, now, config, routeVars, env, asyncVars>>

\* time passes
Tick(step, horizon) ==
    /\ now + step <= horizon
    /\ now' = now + step
    /\ UNCHANGED <<call, rateLimitStore, config, rl, win, routeVars, env,
                   asyncVars>>

\* the cleanup timer fires
Sweep ==
    /\ rateLimitStore' = sweep(rateLimitStore, now)
    /\ UNCHANGED <<call, now, config, rl, win, routeVars, env, asyncVars>>

\* Requests in flight.  A handler runs in turns that end at its awaits: a
\* request is first awaiting the check of its credential ("auth"), then, in
\* one turn, calls checkRateLimit and either returns 429 or sends its
\* request upstream and awaits the answer ("upstream").
MaxInflight == 3
Slots == 1..MaxInflight
IdleSlot == [at |-> "idle"]
NoRequests == [s \in Slots |-> IdleSlot]

\* a request of user u arrives
Arrive(s, u) ==
    /\ inflight[s] = IdleSlot
    /\ inflight' = [inflight EXCEPT ![s] = [at |-> "auth", user |-> u]]
    /\ UNCHANGED <<call, limiterVars, routeVars, env, chat>>

\* the turn of request s that calls checkRateLimit
CheckInFlight(s) ==
    /\ inflight[s].at = "auth"
    /\ NextWindow(win[inflight[s].user], now, config).n
          <= config.limit + MaxExtra
    /\ \E r \in {checkRateLimit(rateLimitStore, inflight[s].user, config,
                                  now)} :
          /\ rateLimitStore' = r.store
          /\ rl' = [route |-> "call", user |-> inflight[s].user, at |-> now,
                    result |-> r.result,
                    entry |-> r.store[RateKey(inflight[s].user)]]
          /\ inflight' = [inflight EXCEPT ![s] =
                             IF r.result.success
                             THEN [at |-> "upstream",
                                   user |-> inflight[s].user]
                             ELSE IdleSlot]
    /\ win' = [win EXCEPT ![inflight[s].user] =
                   NextWindow(win[inflight[s].user], now, config)]
    /\ UNCHANGED <<call, now, config, routeVars, env, chat>>

\* the upstream answer of request s arrives and the handler returns
Respond(s) ==
    /\ inflight[s].at = "upstream"
    /\ inflight' = [inflight EXCEPT ![s] = IdleSlot]
    /\ UNCHANGED <<call, limiterVars, routeVars, env, chat>>

-----------------------------------------------------------------------------
(* The transaction routes, src/app/api/transactions/route.ts.  A request   *)
(* is [bearer, cookie, body, fault]: the user the bearer token verifies to *)
(* and the user of the cookie session (NoUser when there is none), the     *)
(* parsed JSON body, and the store call that fails in this request, if any.*)
(* A handler's outcome is [response, trace, write]: trace lists the store  *)
(* calls the handler sent, in order; write is the change the store made.   *)

NoUser == <<>>
BadJson == [t |-> "SyntaxError"]

NoFault == [at |-> "none", how |-> "none"]
Fault(at, how) == [at |-> at, how |-> how]

NoWrite == [op |-> "none"]

\* NextResponse.json({error}, {status})
Failure(status, error) ==
    [status |-> status, error |-> error, details |-> <<>>, data |-> Undefined]

Outcome(response, trace, write) ==
    [response |-> response, trace |-> trace, write |-> write]

\* let user = the token's user, else the cookie session's user
ResolveUser(req) == IF req.bearer # NoUser THEN req.bearer ELSE req.cookie

MaxTx == 2

TxId(k) == UuidOf(Digits[k + 1])
TxIds == {TxId(k) : k \in 1..MaxTx}

Range(seq) == {seq[k] : k \in 1..Len(seq)}

\* JSON.stringify drops an undefined property; the column is then NULL
Column(v) == IF v = Undefined THEN Null ELSE v

\* the rows of transactions with this id that the store shows to user
VisibleRows(table, id, user) ==
    IF /\ id \in DOMAIN table
       /\ table[id] # Undefined
       /\ (rowLevelSecurity => table[id].user_id = Str(user))
    THEN <<table[id]>>
    ELSE <<>>

\* Found for a store that answers every id with a row
FoundUnlessFailed(catalog, id, fault, at) == fault.at # at

\* .from(catalog).select('id').eq('id', id): found unless the call fails
Found(catalog, id, fault, at) == fault.at # at /\ id \in Range(catalog)

\* LookupsAndWrite without the check of the payment-source lookup's result
LookupsAndWriteUnchecked(req, d, at, write, ok, failed) ==
    LET lookups == <<"categories.select", "payment_sources.select">>
    IN  IF ~Found(categories, d.category.s, req.fault, "categories.select")
        THEN Outcome(Failure(400, "Invalid category selected"), lookups,
                     NoWrite)
        ELSE IF req.fault.at = at
        THEN Outcome(Failure(500, failed), Append(lookups, at), NoWrite)
        ELSE Outcome(ok, Append(lookups, at), write)

\* the lookups of both routes, then the write `write` sent as call `at`;
\* `ok` is the response of a write that the store accepted
LookupsAndWrite(req, d, at, write, ok, failed) ==
    LET viaToken == req.bearer # NoUser
        f == req.fault
        lookups == <<"categories.select", "payment_sources.select">>
    IN  IF viaToken /\ f = Fault("categories.select", "throw")
        THEN Outcome(Failure(500, failed), <<"categories.select">>, NoWrite)
        ELSE IF viaToken /\ f = Fault("payment_sources.select", "throw")
        THEN Outcome(Failure(500, failed), lookups, NoWrite)
        ELSE IF ~Found(categories, d.category.s, f, "categories.select")
        THEN Outcome(Failure(400, "Invalid category selected"), lookups,
                     NoWrite)
        ELSE IF ~Found(paymentSources, d.payment_source.s, f,
                       "payment_sources.select")
        THEN Outcome(Failure(400, "Invalid payment source selected"), lookups,
                     NoWrite)
        ELSE IF f.at = at
        THEN Outcome(Failure(500, failed), Append(lookups, at), NoWrite)
        ELSE Outcome(ok, Append(lookups, at), write)

InvalidData(errors) ==
    [status |-> 400, error |-> "Invalid transaction data",
     details |-> errors, data |-> Undefined]

CreateFailed == "Failed to create transaction. Please try again."
UpdateFailed == "Failed to update transaction. Please try again."

\* the spread the other way round: { user_id: user.id, ...body }
WithUserFromBody(body, user) ==
    IF body.user_id = Undefined THEN [body EXCEPT !.user_id = Str(user)]
    ELSE body

\* the input of safeParse: { ...body, user_id: user.id }
WithUser(body, user) == [body EXCEPT !.user_id = Str(user)]

\* the row that POST inserts for the validated data d
InsertedRow(d, user) ==
    [amount |-> d.amount, type |-> d.type, date |-> d.date,
     category |-> d.category, payment_source |-> d.payment_source,
     notes |-> d.notes, image_url |-> Column(d.image_url),
     user_id |-> Str(user)]

\* the response that carries the row
Success(status, row) ==
    [status |-> status, error |-> "", details |-> <<>>, data |-> row]

\* POST after safeParse gave v, route.ts:78-164
POSTValidated(req, user, v) ==
    IF ~v.success
    THEN Outcome(InvalidData(v.errors), <<>>, NoWrite)
    ELSE LookupsAndWrite(req, v.data, "transactions.insert",
             [op |-> "insert", row |-> InsertedRow(v.data, user)],
             Success(201, InsertedRow(v.data, user)),
             CreateFailed)

\* POST /api/transactions, route.ts:10-242
POST(req) ==
    IF ResolveUser(req) = NoUser
    THEN Outcome(Failure(401, "Unauthorized. Please log in."), <<>>, NoWrite)
    ELSE IF req.body = BadJson
    THEN Outcome(Failure(500, CreateFailed), <<>>, NoWrite)
    ELSE POSTValidated(req, ResolveUser(req),
             transactionSchema(WithUser(req.body, ResolveUser(req))))

\* the row that PUT writes over old for the validated data d
UpdatedRow(old, d) ==
    [old EXCEPT !.amount = d.amount, !.type = d.type, !.date = d.date,
                !.category = d.category,
                !.payment_source = d.payment_source, !.notes = d.notes,
                !.image_url = IF d.image_url = Undefined THEN @
                              ELSE d.image_url]

\* an outcome whose store calls come after the calls of first
After(first, o) == Outcome(o.response, first \o o.trace, o.write)

\* PUT after the read of the existing rows and safeParse, which gave v,
\* route.ts:339-440 (token) and 462-547 (cookie session)
PUTExisting(req, user, existing, v) ==
    IF existing = <<>>
    THEN Outcome(Failure(404, "Transaction not found"),
                 <<"transactions.select">>, NoWrite)
    ELSE IF req.bearer # NoUser /\ existing[1].user_id # Str(user)
    THEN Outcome(Failure(404, "Transaction not found"),
                 <<"transactions.select">>, NoWrite)
    ELSE IF existing[1].user_id # Str(user)
    THEN Outcome(Failure(403,
                    "Unauthorized. You can only update your own transactions."),
                 <<"transactions.select">>, NoWrite)
    ELSE IF ~v.success
    THEN Outcome(InvalidData(v.errors), <<"transactions.select">>, NoWrite)
    ELSE After(<<"transactions.select">>,
               LookupsAndWrite(req, v.data, "transactions.update",
                   [op |-> "update", id |-> req.body.id.s,
                    row |-> UpdatedRow(existing[1], v.data)],
                   Success(200, UpdatedRow(existing[1], v.data)),
                   UpdateFailed))

\* PUT /api/transactions, route.ts:248-554
PUT(req, table) ==
    IF ResolveUser(req) = NoUser
    THEN Outcome(Failure(401, "Unauthorized. Please log in."), <<>>, NoWrite)
    ELSE IF req.body = BadJson
    THEN Outcome(Failure(500, UpdateFailed), <<>>, NoWrite)
    ELSE IF Falsy(req.body.id) \/ ~IsStr(req.body.id)
    THEN Outcome(Failure(400, "Transaction ID is required for updates"),
                 <<>>, NoWrite)
    ELSE IF req.bearer # NoUser
            /\ req.fault = Fault("transactions.select", "throw")
    THEN Outcome(Failure(500, UpdateFailed), <<"transactions.select">>,
                 NoWrite)
    ELSE PUTExisting(req, ResolveUser(req),
             IF req.fault.at = "transactions.select" THEN <<>>
             ELSE VisibleRows(table, req.body.id.s, ResolveUser(req)),
             transactionSchema(WithUser(req.body, ResolveUser(req))))

\* the table after the store made the change
ApplyWrite(table, write) ==
    IF write.op = "insert"
    THEN LET id == CHOOSE i \in TxIds :
                     /\ table[i] = Undefined
                     /\ \A j \in TxIds :
                           table[j] = Undefined => DigitVal(i[1]) <= DigitVal(j[1])
         IN  [table EXCEPT ![id] = write.row]
    ELSE IF write.op = "update"
    THEN [table EXCEPT ![write.id] = write.row]
    ELSE table

-----------------------------------------------------------------------------
(* The receipt route (POST /api/receipt) and the scanner that calls it.    *)
(* A request is [bearer, cookie, image, fault, ai]: image says whether the *)
(* body carries imageBase64, ai is the reply of the model provider:        *)
(* [status, content], content being the text of the reply as a sequence of *)
(* tokens: a code fence marked json, a bare code fence, white space, a     *)
(* word of prose, or                                                       *)
(* the text of one JSON value.  OPENROUTER_API_KEY is taken to be          *)
(* configured.                                                             *)

FenceJson == [t |-> "fence json"]
Fence == [t |-> "fence"]
Space == [t |-> " "]
Word == [t |-> "word"]
Value(v) == [t |-> "value", v |-> v]

\* JSON values besides null, numbers and strings
Object(o) == [t |-> "object", o |-> o]
Array == [t |-> "array"]

\* a reply without content, prose, and the text of the JSON object o
NoContent == <<>>
NotJson == <<Word>>
Json(o) == <<Value(Object(o))>>

\* the first index >= i where text holds a token of kinds, or 0
TokenAt(text, kinds, i) ==
    IF \E k \in i..Len(text) : text[k].t \in kinds
    THEN CHOOSE k \in i..Len(text) :
             /\ text[k].t \in kinds
             /\ \A j \in i..(k - 1) : text[j].t \notin kinds
    ELSE 0

\* text.split(fence)[1].split(bare fence)[0]: what follows the first fence,
\* up to the next fence of either kind (the fence marked json starts with
\* the bare one)
Fenced(text, fence) ==
    LET open == TokenAt(text, {fence}, 1)
        close == TokenAt(text, {"fence", "fence json"}, open + 1)
    IN  SubSeq(text, open + 1, IF close = 0 THEN Len(text) ELSE close - 1)

\* String.prototype.trim on tokens
RECURSIVE TrimSpace(_)
TrimSpace(text) ==
    IF text # <<>> /\ Head(text) = Space THEN TrimSpace(Tail(text))
    ELSE IF text # <<>> /\ text[Len(text)] = Space
    THEN TrimSpace(SubSeq(text, 1, Len(text) - 1))
    ELSE text

\* jsonStr, part_005:301-306
Unfenced(content) ==
    IF TokenAt(content, {"fence json"}, 1) # 0
    THEN TrimSpace(Fenced(TrimSpace(content), "fence json"))
    ELSE IF TokenAt(content, {"fence"}, 1) # 0
    THEN TrimSpace(Fenced(TrimSpace(content), "fence"))
    ELSE TrimSpace(content)

Unparsed == [t |-> "unparsed"]

\* JSON.parse(jsonStr): the value, or Unparsed when it throws
JSONParse(jsonStr) ==
    IF Len(TrimSpace(jsonStr)) = 1 /\ TrimSpace(jsonStr)[1].t = "value"
    THEN TrimSpace(jsonStr)[1].v
    ELSE Unparsed

\* parsedData.amount, .date, ...: a property read on a number, a string or
\* an array gives undefined
Properties(parsedData) ==
    IF parsedData.t = "object" THEN parsedData.o
    ELSE [amount |-> Undefined, date |-> Undefined, category |-> Undefined,
          payment_source |-> Undefined, notes |-> Undefined]

\* receiptExtractionSchema.safeParse, rate-limit.ts:188-215
receiptExtractionSchema(input) ==
    LET amount == IF input.amount = Undefined THEN Num(0) ELSE input.amount
        errors ==
            (IF ~IsNum(amount)
             THEN <<Issue("amount", "Expected number")>>
             ELSE (IF amount.n < 0
                   THEN <<Issue("amount", "Amount cannot be negative")>>
                   ELSE <<>>)
                  \o (IF amount.n > MAX_AMOUNT
                      THEN <<Issue("amount", "Amount exceeds maximum limit")>>
                      ELSE <<>>))
            \o (IF input.date = Undefined THEN <<>>
                ELSE IF ~IsStr(input.date)
                THEN <<Issue("date", "Expected string")>>
                ELSE IF ~MatchesDateRegex(input.date.s)
                THEN <<Issue("date", "Date must be in YYYY-MM-DD format")>>
                ELSE <<>>)
            \o uuidIssues(input.category, "category", "Required",
                          "Category must be a valid UUID")
            \o uuidIssues(input.payment_source, "payment_source", "Required",
                          "Payment source must be a valid UUID")
            \o notesIssues(input.notes)
    IN  [success |-> errors = <<>>,
         errors |-> errors,
         data |-> IF errors # <<>> THEN Undefined
                  ELSE [amount |-> amount,
                        date |-> IF Falsy(input.date)
                                 THEN Str(ISODate(today[1], today[2], today[3]))
                                 ELSE input.date,
                        category |-> input.category,
                        payment_source |-> input.payment_source,
                        notes |-> sanitizeHtml(input.notes)]]

\* ValidId trusting the id that the model picked
ValidIdAsPicked(catalog, picked) ==
    IF IsStr(picked) THEN picked
    ELSE IF catalog # <<>> THEN Str(catalog[1])
    ELSE Undefined

\* catalog.find(c => c.id === picked)?.id || catalog[0]?.id
ValidId(catalog, picked) ==
    IF IsStr(picked) /\ picked.s \in Range(catalog) THEN Str(picked.s)
    ELSE IF catalog # <<>> THEN Str(catalog[1])
    ELSE Undefined

ReceiptFailed == "Failed to process receipt. Please try again."
SetUpFirst ==
    "Please set up at least one category and payment source before scanning receipts."

\* the handler's result: the response, the limiter's store afterwards and
\* the number of requests sent to the model provider
Handled(response, store, aiCalls) ==
    [response |-> response, store |-> store, aiCalls |-> aiCalls]

\* dataToValidate, part_005:333-339
dataToValidate(parsedData, cats, srcs) ==
    [amount |-> IF IsNum(parsedData.amount) THEN parsedData.amount
                ELSE Num(0),
     category |-> ValidId(cats, parsedData.category),
     payment_source |-> ValidId(srcs, parsedData.payment_source),
     date |-> IF Falsy(parsedData.date)
              THEN Str(ISODate(today[1], today[2], today[3]))
              ELSE parsedData.date,
     notes |-> IF Falsy(parsedData.notes) THEN Null ELSE parsedData.notes]

\* the route after the model provider's text was parsed and validated,
\* which gave v, part_005:342-357
ReceiptValidated(store, v) ==
    IF ~v.success
    THEN Handled([status |-> 400,
                  error |-> "Invalid receipt data extracted. Please try again.",
                  details |-> v.errors, data |-> Undefined],
                 store, 1)
    ELSE Handled(Success(200, v.data), store, 1)

\* the route after JSON.parse gave parsedData, part_005:308-357; a property
\* read on null throws, and the handler's catch answers
ReceiptParsed(store, parsedData, cats, srcs) ==
    IF parsedData = Unparsed
    THEN Handled(Failure(500,
             "Failed to parse receipt data. Please try again."), store, 1)
    ELSE IF parsedData = Null
    THEN Handled(Failure(500, ReceiptFailed), store, 1)
    ELSE ReceiptValidated(store,
             receiptExtractionSchema(
                 dataToValidate(Properties(parsedData), cats, srcs)))

\* ReceiptAllowed with the request to the model provider sent before the
\* catalogs are looked at
ReceiptAllowedCallFirst(req, store, cats, srcs) ==
    IF cats = <<>> \/ srcs = <<>>
    THEN Handled(Failure(400, SetUpFirst), store, 1)
    ELSE Handled(Failure(500, ReceiptFailed), store, 1)

\* the route after the limiter allowed the request and left the map store,
\* part_005:95-357
ReceiptAllowed(req, store, cats, srcs) ==
    IF cats = <<>> \/ srcs = <<>>
    THEN Handled(Failure(400, SetUpFirst), store, 0)
    ELSE IF req.ai.status = 429
    THEN Handled(Failure(429,
             "Rate limit exceeded. Please try again in a moment."), store, 1)
    ELSE IF req.ai.status # 200
    THEN Handled(Failure(500, ReceiptFailed), store, 1)
    ELSE IF req.ai.content = NoContent
    THEN Handled(Failure(500, "No response from AI model"), store, 1)
    ELSE ReceiptParsed(store, JSONParse(Unfenced(req.ai.content)), cats, srcs)

\* the route after checkRateLimit gave limited, part_005:83-357
ReceiptLimited(req, limited) ==
    IF ~limited.result.success
    THEN Handled(Failure(429, "Rate limit exceeded."), limited.store, 0)
    ELSE ReceiptAllowed(req, limited.store,
             IF req.fault.at = "categories.select" THEN <<>> ELSE categories,
             IF req.fault.at = "payment_sources.select" THEN <<>>
             ELSE paymentSources)

\* POST /api/receipt, src/unnamed/part_005
ReceiptPOST(req, store, t) ==
    IF ~req.image
    THEN Handled(Failure(400, "Image is required"), store, 0)
    ELSE IF ResolveUser(req) = NoUser
    THEN Handled(Failure(401, "Unauthorized. Please log in."), store, 0)
    ELSE ReceiptLimited(req,
             checkRateLimit(store, ResolveUser(req), RECEIPT, t))

\* ReceiptScanner.processReceipt, src/unnamed/part_002:125-235: the row the
\* scanner inserts for the draft the route returned
transactionData(extractedData, user) ==
    [amount |-> IF Falsy(extractedData.amount) THEN Num(0)
                ELSE extractedData.amount,
     type |-> Str(Expense),
     date |-> Str(ISODate(today[1], today[2], today[3])),
     category |-> extractedData.category,
     payment_source |-> extractedData.payment_source,
     notes |-> IF Falsy(extractedData.notes) THEN Null
               ELSE extractedData.notes,
     image_url |-> Null,
     user_id |-> Str(user)]

-----------------------------------------------------------------------------
(* The chat route (POST /api/ai-chat), src/app/auth/callback/route.ts:     *)
(* 56-255.  A request is [bearer, cookie, messages, retries, upstream]:    *)
(* messages says whether the body carries a messages array, retries is the *)
(* body's retries property, upstream[k] is what the k-th request to the    *)
(* model provider meets: [status, note], an HTTP response with content    *)
(* (Http), one without content (Empty), or a fetch that rejects with a    *)
(* message (Threw; status 0).  Past its end, upstream repeats its last.    *)

Http(status) == [status |-> status, note |-> "content"]
Empty == [status |-> 200, note |-> "empty"]
Threw(message) == [status |-> 0, note |-> message]

\* String.prototype.includes
Includes(s, pat) ==
    \E i \in 1..(Len(s) - Len(pat) + 1) : SubSeq(s, i, i + Len(pat) - 1) = pat

\* messages of errors: a fetch that could not connect, and response.json()
\* on a body that is not JSON and begins with 429
FetchFailed == <<"f", "e", "t", "c", "h", " ", "f", "a", "i", "l", "e", "d">>
Unexpected429 ==
    <<"U", "n", "e", "x", "p", "e", "c", "t", "e", "d", " ", "t", "o", "k",
      "e", "n", " ", "4", "2", "9">>

ReplyAt(upstream, k) ==
    upstream[IF k <= Len(upstream) THEN k ELSE Len(upstream)]

ChatUnavailable ==
    "AI service is temporarily unavailable. Please try again later."

\* await new Promise(resolve => setTimeout(resolve, ms)) before the
\* attempts that gave r
Delayed(ms, r) == [r EXCEPT !.waits = <<ms>> \o @]

\* the loop that also takes the answer 429 for one to try again
RECURSIVE AttemptsRetrying429(_, _, _)
AttemptsRetrying429(attempt, retries, upstream) ==
    IF attempt >= retries
    THEN [response |-> Failure(500, ChatUnavailable), aiCalls |-> attempt,
          waits |-> <<>>]
    ELSE IF /\ ReplyAt(upstream, attempt + 1).status \notin 200..299
            /\ attempt # retries - 1
    THEN Delayed(2 ^ attempt * 1000,
                 AttemptsRetrying429(attempt + 1, retries, upstream))
    ELSE [response |-> Failure(ReplyAt(upstream, attempt + 1).status, ""),
          aiCalls |-> attempt + 1, waits |-> <<>>]

\* the loop `for (let attempt = 0; attempt < retries; attempt++)`,
\* route.ts:160-246: the response, the number of requests sent upstream and
\* the delays between them, in milliseconds
RECURSIVE Attempts(_, _, _)
Attempts(attempt, retries, upstream) ==
    LET reply == ReplyAt(upstream, attempt + 1)
        last == attempt = retries - 1
    IN  IF attempt >= retries
        THEN [response |-> Failure(500, ChatUnavailable), aiCalls |-> attempt,
              waits |-> <<>>]
        ELSE IF reply.status = 0 /\ Includes(reply.note, <<"4", "2", "9">>)
                /\ ~last
        THEN Delayed(2 ^ attempt * 1000,
                     Attempts(attempt + 1, retries, upstream))
        ELSE IF reply.status = 0
        THEN [response |-> Failure(500, ChatUnavailable),
              aiCalls |-> attempt + 1, waits |-> <<>>]
        ELSE IF reply.status = 429
        THEN [response |-> Failure(429, "Rate limit exceeded."),
              aiCalls |-> attempt + 1, waits |-> <<>>]
        ELSE IF reply.status >= 500 /\ ~last
        THEN Delayed(2 ^ attempt * 1000,
                     Attempts(attempt + 1, retries, upstream))
        ELSE IF reply.status \in {401, 403}
        THEN [response |-> Failure(500,
                  "AI service authentication failed. Please try again later."),
              aiCalls |-> attempt + 1, waits |-> <<>>]
        ELSE IF reply.status \notin 200..299
        THEN [response |-> Failure(500,
                  "AI service error. Please try again later."),
              aiCalls |-> attempt + 1, waits |-> <<>>]
        ELSE IF reply = Empty
        THEN [response |-> Failure(500,
                  "Invalid response format from OpenRouter API"),
              aiCalls |-> attempt + 1, waits |-> <<>>]
        ELSE [response |-> [status |-> 200, error |-> "", details |-> <<>>,
                            data |-> Str(<<"o", "k">>)],
              aiCalls |-> attempt + 1, waits |-> <<>>]

\* the chat handler's result: as Handled, with the delays it slept
HandledChat(response, store, aiCalls, waits) ==
    [response |-> response, store |-> store, aiCalls |-> aiCalls,
     waits |-> waits]

\* the route after the loop gave looped
ChatLooped(store, looped) ==
    HandledChat(looped.response, store, looped.aiCalls, looped.waits)

\* the route after checkRateLimit gave limited, route.ts:123-246
ChatLimited(req, limited) ==
    IF ~limited.result.success
    THEN HandledChat(Failure(429, "Rate limit exceeded."), limited.store, 0,
                     <<>>)
    ELSE IF ~req.messages
    THEN HandledChat(Failure(400,
             "Invalid request. Messages array is required."),
             limited.store, 0, <<>>)
    ELSE ChatLooped(limited.store,
             Attempts(0, IF req.retries = Undefined THEN 3
                         ELSE req.retries.n, req.upstream))

\* POST /api/ai-chat
ChatPOST(req, store, t) ==
    IF ResolveUser(req) = NoUser
    THEN HandledChat(Failure(401,
             "Unauthorized. Please log in to use the AI assistant."),
             store, 0, <<>>)
    ELSE ChatLimited(req, checkRateLimit(store, ResolveUser(req), AI_CHAT, t))

\* POST /api/ai-chat while a statement of the limiter throws
ChatPOSTTry(req, store, t, threw) ==
    IF ResolveUser(req) = NoUser
    THEN HandledChat(Failure(401,
             "Unauthorized. Please log in to use the AI assistant."),
             store, 0, <<>>)
    ELSE ChatLimited(req, checkRateLimitTry(store, ResolveUser(req), AI_CHAT,
                                            t, threw))

-----------------------------------------------------------------------------
(* Requests.  Each action is one request handled from start to end; the    *)
(* sets it draws its inputs from are its parameters.                       *)

CatA == UuidOf("c")
CatB == UuidOf("d")
SrcA == UuidOf("e")
Ghost == UuidOf("f")

Cred(bearer, cookie) == [bearer |-> bearer, cookie |-> cookie]
Anonymous == Cred(NoUser, NoUser)

IdleResp == [route |-> "idle"]

\* the table has room for the row a handler inserts
Room(table, write) ==
    write.op = "insert" => \E i \in TxIds : table[i] = Undefined

\* a client sends POST /api/transactions
CreateTransaction(creds, bodies, faults) ==
    /\ resp = IdleResp
    /\ \E c \in creds, body \in bodies, f \in faults :
          LET req == [bearer |-> c.bearer, cookie |-> c.cookie,
                      body |-> body, fault |-> f]
          IN  \E o \in {POST(req)} :
              /\ Room(transactions, o.write)
              /\ transactions' = ApplyWrite(transactions, o.write)
              /\ resp' = [route |-> "POST", cred |-> c, body |-> body,
                          response |-> o.response, trace |-> o.trace,
                          write |-> o.write, before |-> transactions,
                          fault |-> f]
    /\ UNCHANGED <<call, limiterVars, env, asyncVars>>

\* a client sends PUT /api/transactions
UpdateTransaction(creds, bodies, ids, faults) ==
    /\ resp = IdleResp
    /\ \E c \in creds, b \in bodies, id \in ids, f \in faults :
          LET body == IF b = BadJson THEN b ELSE [b EXCEPT !.id = id]
              req == [bearer |-> c.bearer, cookie |-> c.cookie,
                      body |-> body, fault |-> f]
          IN  \E o \in {PUT(req, transactions)} :
              /\ transactions' = ApplyWrite(transactions, o.write)
              /\ resp' = [route |-> "PUT", cred |-> c, body |-> body,
                          response |-> o.response, trace |-> o.trace,
                          write |-> o.write, before |-> transactions,
                          fault |-> f]
    /\ UNCHANGED <<call, limiterVars, env, asyncVars>>

\* the signed-in user scans a receipt: processReceipt calls the receipt
\* route with the session's token and inserts the draft it returns
ProcessReceipt(users, replies, faults) ==
    /\ resp = IdleResp
    /\ \E u \in users, ai \in replies, f \in faults :
          LET req == [bearer |-> u, cookie |-> u, image |-> TRUE,
                      fault |-> f, ai |-> ai]
          IN  \E h \in {ReceiptPOST(req, rateLimitStore, now)} :
              \E write \in {IF /\ h.response.status = 200
                               /\ f.at # "transactions.insert"
                            THEN [op |-> "insert",
                                  row |-> transactionData(h.response.data, u)]
                            ELSE NoWrite} :
              /\ Room(transactions, write)
              /\ rateLimitStore' = h.store
              /\ transactions' = ApplyWrite(transactions, write)
              /\ resp' = [route |-> "scan", cred |-> Cred(u, u), body |-> ai,
                          response |-> h.response,
                          trace |-> IF h.response.status = 200
                                    THEN <<"transactions.insert">> ELSE <<>>,
                          write |-> write, before |-> transactions,
                          fault |-> f]
    /\ UNCHANGED <<call, now, config, rl, win, env, asyncVars>>

\* a client sends POST /api/receipt
ReceiptRequest(creds, images, replies) ==
    \E c \in creds, image \in images, ai \in replies :
       LET req == [bearer |-> c.bearer, cookie |-> c.cookie, image |-> image,
                   fault |-> NoFault, ai |-> ai]
       IN  \E h \in {ReceiptPOST(req, rateLimitStore, now)} :
           /\ rateLimitStore' = h.store
           /\ rl' = [route |-> "receipt", user |-> ResolveUser(req),
                     at |-> now, status |-> h.response.status,
                     aiCalls |-> h.aiCalls, store |-> h.store]
           /\ UNCHANGED <<call, now, config, win, routeVars, env, asyncVars>>

\* a client sends POST /api/ai-chat
ChatRequest(creds, messages, retries, upstreams) ==
    \E c \in creds, m \in messages, r \in retries, up \in upstreams :
       LET req == [bearer |-> c.bearer, cookie |-> c.cookie, messages |-> m,
                   retries |-> r, upstream |-> up]
       IN  \E h \in {ChatPOST(req, rateLimitStore, now)} :
           /\ rateLimitStore' = h.store
           /\ rl' = [route |-> "chat", user |-> ResolveUser(req),
                     at |-> now, status |-> h.response.status,
                     aiCalls |-> h.aiCalls, store |-> h.store,
                     retries |-> r, waits |-> h.waits,
                     upstream |-> [k \in 1..h.aiCalls |-> ReplyAt(up, k)]]
           /\ UNCHANGED <<call, now, config, win, routeVars, env, asyncVars>>

\* one call checkRateLimit(u, config) during which a statement may throw
LimiterCallTry(u, throws) ==
    \E threw \in throws :
       \E r \in {checkRateLimitTry(rateLimitStore, u, config, now, threw)} :
           /\ rateLimitStore' = r.store
           /\ rl' = [route |-> "call", user |-> u, at |-> now,
                     result |-> r.result, entry |-> r.store[RateKey(u)],
                     threw |-> threw, before |-> rateLimitStore[RateKey(u)]]
           /\ UNCHANGED <<call, now, config, win, routeVars, env, asyncVars>>

\* a client sends POST /api/ai-chat while a statement of the limiter may
\* throw
ChatRequestTry(creds, upstreams, throws) ==
    \E c \in creds, up \in upstreams, threw \in throws :
       LET req == [bearer |-> c.bearer, cookie |-> c.cookie,
                   messages |-> TRUE, retries |-> Undefined, upstream |-> up]
       IN  \E h \in {ChatPOSTTry(req, rateLimitStore, now, threw)} :
           /\ rateLimitStore' = h.store
           /\ rl' = [route |-> "chat", user |-> ResolveUser(req),
                     at |-> now, status |-> h.response.status,
                     aiCalls |-> h.aiCalls, store |-> h.store,
                     threw |-> threw,
                     before |-> rateLimitStore[RateKey(UserA)]]
           /\ UNCHANGED <<call, now, config, win, routeVars, env, asyncVars>>

\* the outcome of a fetch with the text that comes with it: the message of
\* the error thrown, or errorData.error?.message || response.statusText of an
\* answer
Reported(outcome, text) ==
    IF outcome.status = 0 THEN Threw(text)
    ELSE [status |-> outcome.status, note |-> outcome.note, text |-> text]

UpstreamWith(upstream, text) ==
    [k \in 1..Len(upstream) |-> Reported(upstream[k], text)]

\* a store failure with the text of its error (insertError.message, ...)
FaultWith(fault, text) ==
    [at |-> fault.at, how |-> fault.how, text |-> text]

\* POST /api/ai-chat handled twice from the same state, the two runs
\* differing only in the text x or y of the upstream errors
ChatTwice(creds, upstreams, texts) ==
    \E c \in creds, up \in upstreams, x \in texts :
       \E y \in texts \ {x} :
       \E first \in {ChatPOST([bearer |-> c.bearer, cookie |-> c.cookie,
                                messages |-> TRUE, retries |-> Undefined,
                                upstream |-> UpstreamWith(up, x)],
                               rateLimitStore, now)},
          second \in {ChatPOST([bearer |-> c.bearer, cookie |-> c.cookie,
                                 messages |-> TRUE, retries |-> Undefined,
                                 upstream |-> UpstreamWith(up, y)],
                                rateLimitStore, now)} :
           /\ rateLimitStore' = first.store
           /\ rl' = [route |-> "twice", of |-> "chat", cred |-> c,
                     upstream |-> up, texts |-> <<x, y>>,
                     first |-> first.response, second |-> second.response]
           /\ UNCHANGED <<call, now, config, win, routeVars, env, asyncVars>>

\* POST /api/receipt handled twice, the runs differing only in the texts
ReceiptTwice(creds, replies, faults, texts) ==
    \E c \in creds, ai \in replies, f \in faults, x \in texts :
       \E y \in texts \ {x} :
       \E first \in {ReceiptPOST([bearer |-> c.bearer, cookie |-> c.cookie,
                                   image |-> TRUE, fault |-> FaultWith(f, x),
                                   ai |-> [status |-> ai.status,
                                           content |-> ai.content,
                                           text |-> x]],
                                  rateLimitStore, now)},
          second \in {ReceiptPOST([bearer |-> c.bearer, cookie |-> c.cookie,
                                    image |-> TRUE, fault |-> FaultWith(f, y),
                                    ai |-> [status |-> ai.status,
                                            content |-> ai.content,
                                            text |-> y]],
                                   rateLimitStore, now)} :
           /\ rateLimitStore' = first.store
           /\ rl' = [route |-> "twice", of |-> "receipt", cred |-> c,
                     ai |-> ai, fault |-> f, texts |-> <<x, y>>,
                     first |-> first.response, second |-> second.response]
           /\ UNCHANGED <<call, now, config, win, routeVars, env, asyncVars>>

\* POST /api/transactions handled twice, the runs differing only in the texts
CreateTwice(creds, bodies, faults, texts) ==
    \E c \in creds, body \in bodies, f \in faults, x \in texts :
       \E y \in texts \ {x} :
       \E first \in {POST([bearer |-> c.bearer, cookie |-> c.cookie,
                            body |-> body, fault |-> FaultWith(f, x)])},
          second \in {POST([bearer |-> c.bearer, cookie |-> c.cookie,
                             body |-> body, fault |-> FaultWith(f, y)])} :
           /\ Room(transactions, first.write)
           /\ transactions' = ApplyWrite(transactions, first.write)
           /\ rl' = [route |-> "twice", of |-> "POST", cred |-> c,
                     body |-> body, fault |-> f, texts |-> <<x, y>>,
                     first |-> first.response, second |-> second.response]
           /\ UNCHANGED <<call, rateLimitStore, now, config, win, resp, env,
                          asyncVars>>

\* PUT /api/transactions handled twice, the runs differing only in the texts
UpdateTwice(creds, bodies, ids, faults, texts) ==
    \E c \in creds, b \in bodies, id \in ids, f \in faults, x \in texts :
       \E y \in texts \ {x} :
       \E first \in {PUT([bearer |-> c.bearer, cookie |-> c.cookie,
                           body |-> [b EXCEPT !.id = id],
                           fault |-> FaultWith(f, x)], transactions)},
          second \in {PUT([bearer |-> c.bearer, cookie |-> c.cookie,
                            body |-> [b EXCEPT !.id = id],
                            fault |-> FaultWith(f, y)], transactions)} :
           /\ transactions' = ApplyWrite(transactions, first.write)
           /\ rl' = [route |-> "twice", of |-> "PUT", cred |-> c,
                     body |-> [b EXCEPT !.id = id], fault |-> f,
                     texts |-> <<x, y>>,
                     first |-> first.response, second |-> second.response]
           /\ UNCHANGED <<call, rateLimitStore, now, config, win, resp, env,
                          asyncVars>>

-----------------------------------------------------------------------------
(* The chat client, src/components/AIChat.tsx and src/unnamed/part_004.    *)
(* chat holds the component's state as the last render committed it        *)
(* (loading, input: whether the text is non-empty), the ref                *)
(* lastRequestTimeRef (last), the handleSend calls that await getSession   *)
(* (awaiting), the quick-question timers with the values the handleSend of *)
(* their render captured, and the chat requests in flight (flying).        *)
(* sessionFirst tells which handleSend the build has: the one of part_004, *)
(* which awaits the session before the throttle, or the one of AIChat.tsx. *)

MIN_DELAY == 2000
QUICK_DELAY == 100

MaxPending == 2
MaxClientTicks == 4

NoChat == [mounted |-> FALSE]

\* handleSend from its throttle on, at time t
Throttle(c, t) ==
    IF t - c.last < MIN_DELAY THEN c
    ELSE [c EXCEPT !.last = t, !.input = FALSE, !.loading = TRUE,
                   !.flying = @ + 1]

\* handleSend up to its first await, called at time t with the input and
\* loading that its render captured
handleSend(c, input, loading, t) ==
    IF ~input \/ loading THEN c
    ELSE IF c.sessionFirst THEN [c EXCEPT !.awaiting = @ + 1]
    ELSE Throttle(c, t)

\* onChange of the input, enabled while not loading
Type(texts) ==
    /\ chat.mounted
    /\ ~chat.loading
    /\ \E x \in texts : chat' = [chat EXCEPT !.input = x]
    /\ UNCHANGED <<call, limiterVars, routeVars, env, inflight>>

\* the Enter key in the input or a click on the send button, both enabled
\* while not loading (the button only with text)
PressSend ==
    /\ chat.mounted
    /\ ~chat.loading
    /\ chat.awaiting < MaxPending
    /\ chat' = handleSend(chat, chat.input, chat.loading, now)
    /\ UNCHANGED <<call, limiterVars, routeVars, env, inflight>>

\* a click on a quick-question button, enabled while not loading:
\* setInput(question); setTimeout(() => handleSend(), 100)
ClickQuick ==
    /\ chat.mounted
    /\ ~chat.loading
    /\ Cardinality(chat.timers) < MaxPending
    /\ chat' = [chat EXCEPT !.input = TRUE,
                            !.timers = @ \cup {[due |-> now + QUICK_DELAY,
                                                input |-> chat.input,
                                                loading |-> chat.loading]}]
    /\ UNCHANGED <<call, limiterVars, routeVars, env, inflight>>

\* a quick-question timer fires, not before it is due
TimerFires ==
    /\ chat.mounted
    /\ chat.awaiting < MaxPending
    /\ \E timer \in chat.timers :
          /\ now >= timer.due
          /\ chat' = handleSend([chat EXCEPT !.timers = @ \ {timer}],
                                timer.input, timer.loading, now)
    /\ UNCHANGED <<call, limiterVars, routeVars, env, inflight>>

\* supabase.auth.getSession() of one handleSend call resolves
SessionResolves(sessions) ==
    /\ chat.mounted
    /\ chat.awaiting > 0
    /\ \E session \in sessions :
          chat' = IF session
                  THEN Throttle([chat EXCEPT !.awaiting = @ - 1], now)
                  ELSE [chat EXCEPT !.awaiting = @ - 1]
    /\ UNCHANGED <<call, limiterVars, routeVars, env, inflight>>

\* a chat request in flight ends (answer or error): finally setLoading(false)
ChatCompletes ==
    /\ chat.mounted
    /\ chat.flying > 0
    /\ chat' = [chat EXCEPT !.flying = @ - 1, !.loading = FALSE]
    /\ UNCHANGED <<call, limiterVars, routeVars, env, inflight>>

\* the response is consumed
ReturnResponse ==
    /\ resp # IdleResp
    /\ resp' = IdleResp
    /\ UNCHANGED <<call, limiterVars, transactions, env, asyncVars>>

-----------------------------------------------------------------------------
(* The inputs of the requests *)

\* a body that passes the schema and names a category and a payment source
\* of the store
GoodBody ==
    [id |-> Undefined, amount |-> Num(50), type |-> Str(Expense),
     date |-> Str(ISODate(2024, 3, 15)), category |-> Str(CatA),
     payment_source |-> Str(SrcA), notes |-> Undefined,
     image_url |-> Undefined, user_id |-> Undefined]

BodyFields ==
    {"amount", "type", "date", "category", "payment_source", "notes",
     "image_url", "user_id"}

\* the other values a field of the body takes
Others(field) ==
    CASE field = "amount" ->
           {Undefined, Str(<<"5", "0">>), Num(-5), Num(0), Num(MAX_AMOUNT),
            Num(MAX_AMOUNT + 1)}
      [] field = "type" -> {Undefined, Str(<<"I", "n", "c", "o", "m", "e">>)}
      [] field = "date" ->
           {Str(ISODate(2024, 2, 30)), Str(ISODate(2024, 13, 1)),
            Str(ISODate(2026, 1, 1)),
            Str(<<"1", "5", "/", "0", "3", "/", "2", "0", "2", "4">>)}
      [] field = "category" -> {Str(Ghost), Str(<<"x">>), Undefined}
      [] field = "payment_source" -> {Str(Ghost), Str(<<"x">>)}
      [] field = "notes" ->
           {Null, Str(ScriptOpen \o <<">">> \o Alert \o ScriptClose \o Lunch),
            Str(<<"<", "b", ">">>), Str(Rep("a", MAX_NOTES + 1))}
      [] field = "image_url" -> {Null, Str(<<"a">>)}
      [] field = "user_id" -> {Str(UserB), Str(<<"x">>)}

\* GoodBody with one field changed
OneOff(fields) ==
    {[GoodBody EXCEPT ![f] = v] : <<f, v>> \in
        UNION {{<<f, v>> : v \in Others(f)} : f \in fields}}

\* bodies with two fields wrong at once
TwoOff ==
    {[GoodBody EXCEPT !.amount = Num(-5), !.date = Str(ISODate(2024, 13, 1))],
     [GoodBody EXCEPT !.amount = Num(0), !.category = Str(Ghost)],
     [GoodBody EXCEPT !.category = Str(Ghost), !.payment_source = Str(Ghost)],
     [GoodBody EXCEPT !.user_id = Str(UserB), !.amount = Num(MAX_AMOUNT)]}

Bodies == {GoodBody, BadJson} \cup OneOff(BodyFields) \cup TwoOff
AmountBodies == {GoodBody} \cup OneOff({"amount"})

\* the id property of an update's body
UpdateIds ==
    {Str(TxId(k)) : k \in 1..MaxTx} \cup {Str(Ghost), Str(<<"x">>), Undefined}

Callers == {Cred(UserA, NoUser), Cred(NoUser, UserA), Anonymous}

Faults ==
    {NoFault, Fault("transactions.select", "error"),
     Fault("categories.select", "error"),
     Fault("payment_sources.select", "throw"),
     Fault("transactions.insert", "error"),
     Fault("transactions.update", "throw")}

\* what the model provider's text parses to
Extracted(amount, category, notes) ==
    Json([amount |-> amount, date |-> Str(ISODate(2024, 3, 1)),
          category |-> category, payment_source |-> Str(SrcA),
          notes |-> notes])

AiReplies ==
    {[status |-> 200, content |-> Extracted(a, Str(CatB), Null)] :
        a \in {Num(12), Num(0), Num(-3), Num(MAX_AMOUNT), Num(MAX_AMOUNT + 1),
               Str(<<"1", "2">>), Undefined}}
    \cup {[status |-> 200, content |-> Extracted(Num(12), Str(Ghost),
                                                   Str(<<"<", "b", ">">>))],
          [status |-> 200, content |-> NoContent],
          [status |-> 200, content |-> NotJson],
          [status |-> 429, content |-> NoContent],
          [status |-> 500, content |-> NoContent]}

NoteLen == 2

\* every text of at most NoteLen characters of SanAlphabet
NoteTexts == UNION {[1..k -> SanAlphabet] : k \in 0..NoteLen}

\* texts around the bound of 1000 characters, before and after sanitizing
LongNotes ==
    { Rep("a", MAX_NOTES),
      Rep("a", MAX_NOTES + 1),
      <<"<", "b", ">">> \o Rep("a", MAX_NOTES - 2),
      <<"<", "b", ">">> \o Rep("a", MAX_NOTES + 1),
      Rep("a", MAX_NOTES) \o <<" ">> }

\* texts with tags, entity references and white space
MarkupNotes ==
    { <<"<", "b", ">">>,
      <<"<", "b", ">", "a", "<", "/", "b", ">">>,
      <<" ", "<", "b", ">", " ", "a", " ">>,
      <<"a", "<", "b">>,
      <<"<", "<", "b", ">", ">">>,
      <<"<", ">", "a", ">">>,
      <<"&", "a", "m", "p", ";">>,
      <<"a", "&", "b", ";", "c">>,
      <<"&", ";", "a", ";">>,
      <<"<", "&", "a", ";", ">">>,
      <<"&", "<", "a", ">", ";">>,
      <<"&", "l", "t", ";", "b", "&", "g", "t", ";">>,
      <<"\t", "a", " ", "b", "\n">> }

\* the notes of the create requests and of the update requests
CreateNotes ==
    {Undefined, Null, Num(5)}
      \cup {Str(x) : x \in NoteTexts \cup MarkupNotes \cup ScriptTexts
                            \cup LongNotes}

UpdateNotes ==
    {Undefined,
     Str(ScriptOpen \o <<">">> \o Alert \o ScriptClose \o Lunch),
     Str(<<"<", "b", ">">> \o Rep("a", MAX_NOTES - 2))}

\* GoodBody with the notes n
NoteBodies(notes) == {[GoodBody EXCEPT !.notes = n] : n \in notes}

SrcB == UuidOf("9")

\* the object the model provider is asked for
GoodDraft ==
    [amount |-> Num(12), date |-> Str(ISODate(2024, 3, 1)),
     category |-> Str(CatB), payment_source |-> Str(SrcA), notes |-> Null]

\* the texts of the model provider's replies
ReplyTexts ==
    { Json(GoodDraft),
      Json([GoodDraft EXCEPT !.category = Str(Ghost)]),
      Json([GoodDraft EXCEPT !.category = Undefined,
                             !.payment_source = Str(Ghost)]),
      Json([GoodDraft EXCEPT !.category = Num(5),
                             !.payment_source = Str(SrcB)]),
      Json([GoodDraft EXCEPT !.amount = Num(-3)]),
      <<FenceJson, Space>> \o Json(GoodDraft) \o <<Space, Fence>>,
      <<Word, Space, Fence>> \o Json(GoodDraft) \o <<Fence, Word>>,
      <<Space>> \o Json(GoodDraft) \o <<Space>>,
      <<Word>> \o Json(GoodDraft),
      <<Fence, Word, FenceJson>> \o Json(GoodDraft) \o <<Fence>>,
      <<FenceJson>> \o Json(GoodDraft),
      <<FenceJson, Word, Fence>>,
      <<FenceJson, Value(Num(42)), Fence>>,
      <<Space>>,
      NotJson,
      <<Value(Num(42))>>,
      <<Value(Str(Lunch))>>,
      <<Value(Array)>>,
      <<Value(Null)>> }

ScanReplies ==
    {[status |-> 200, content |-> x] : x \in ReplyTexts \cup {NoContent}}
      \cup {[status |-> 429, content |-> NoContent],
            [status |-> 500, content |-> NoContent]}

MaxAttempts == 3

\* what one request to the model provider meets
UpstreamOutcomes ==
    {Http(200), Http(429), Http(503), Http(400),
     Threw(FetchFailed), Threw(Unexpected429)}

\* what the requests of one chat request meet, in order
Upstreams == [1..MaxAttempts -> UpstreamOutcomes]

\* the retries property of the body
RetriesGiven == {Undefined, Num(1), Num(2), Num(MaxAttempts + 1)}

-----------------------------------------------------------------------------
\* transactionSchema.safeParse applied to GoodBody with the amount v
ApplyAmount ==
    /\ call = IdleCall
    /\ \E v \in AmountInputs :
          call' = [fn |-> "amount", arg |-> v,
                   out |-> transactionSchema([GoodBody EXCEPT !.amount = v])]
    /\ UNCHANGED <<limiterVars, routeVars, env, asyncVars>>

\* transactionSchema.safeParse applied to GoodBody with the date s
ApplyDate ==
    /\ call = IdleCall
    /\ \E s \in DateInputs :
          call' = [fn |-> "date", arg |-> Str(s),
                   out |-> transactionSchema([GoodBody EXCEPT !.date = Str(s)])]
    /\ UNCHANGED <<limiterVars, routeVars, env, asyncVars>>

\* the result is consumed
ReturnCall ==
    /\ call # IdleCall
    /\ call' = IdleCall
    /\ UNCHANGED <<limiterVars, routeVars, env, asyncVars>>

-----------------------------------------------------------------------------
(* Specifications *)

\* the store: one transaction of UserB, two categories, one payment source
InitStore ==
    /\ transactions =
          [i \in TxIds |->
              IF i = TxId(1)
              THEN [amount |-> Num(50), type |-> Str(Expense),
                    date |-> Str(ISODate(2024, 3, 1)), category |-> Str(CatA),
                    payment_source |-> Str(SrcA), notes |-> Null,
                    image_url |-> Null, user_id |-> Str(UserB)]
              ELSE Undefined]
    /\ categories = <<CatA, CatB>>
    /\ paymentSources = <<SrcA>>
    /\ resp = IdleResp

InitLimiter ==
    /\ rateLimitStore = EmptyRateLimitStore
    /\ now = 0
    /\ rl = IdleRl
    /\ win = [u \in Users |-> NoWindow]
    /\ inflight = NoRequests
    /\ chat = NoChat

\* the validators and the sanitizer on their own
InitPure ==
    /\ call = IdleCall
    /\ today \in Todays
    /\ dateRollover \in BOOLEAN
    /\ rowLevelSecurity = TRUE
    /\ config = RECEIPT
    /\ InitLimiter
    /\ InitStore

NextPure ==
    \/ ApplyAmount
    \/ ApplyDate
    \/ ApplySanitize
    \/ ApplySanitizeAgain
    \/ ReturnCall

SpecPure == InitPure /\ [][NextPure]_vars

\* checkRateLimit on its own, under small limits and windows
InitWindow ==
    /\ call = IdleCall
    /\ today = <<2024, 3, 15>>
    /\ dateRollover = TRUE
    /\ rowLevelSecurity = TRUE
    /\ config \in LimiterConfigs
    /\ InitLimiter
    /\ InitStore

NextWindowed ==
    \/ \E u \in Users : LimiterCall(u)
    \/ Tick(1, MaxTime)
    \/ Sweep

SpecLimiter == InitWindow /\ [][NextWindowed]_vars

\* concurrent requests of one user
NextInFlight ==
    \/ \E s \in Slots : Arrive(s, UserA)
    \/ \E s \in Slots : CheckInFlight(s)
    \/ \E s \in Slots : Respond(s)
    \/ Tick(1, MaxTime)

SpecInFlight == InitWindow /\ [][NextInFlight]_vars

\* the two rate-limited routes, with their limits
MaxWindows == 2

InitGate ==
    /\ call = IdleCall
    /\ today = <<2024, 3, 15>>
    /\ dateRollover = TRUE
    /\ rowLevelSecurity = TRUE
    /\ config = RECEIPT
    /\ InitLimiter
    /\ InitStore

GateCallers == {Cred(UserA, NoUser), Cred(NoUser, UserA), Anonymous}

NextGate ==
    \/ ReceiptRequest(GateCallers, BOOLEAN,
                      {[status |-> 200,
                        content |-> Extracted(Num(12), Str(CatB), Null)]})
    \/ ChatRequest(GateCallers, BOOLEAN, {Undefined},
                   {<<Http(200)>>, <<Http(429)>>})
    \/ Tick(RECEIPT.window, MaxWindows * RECEIPT.window)
    \/ Sweep

SpecGate == InitGate /\ [][NextGate]_vars

\* the transaction routes
InitTx ==
    /\ call = IdleCall
    /\ today = <<2024, 3, 15>>
    /\ dateRollover \in BOOLEAN
    /\ rowLevelSecurity \in BOOLEAN
    /\ config = RECEIPT
    /\ InitLimiter
    /\ InitStore

NextTx ==
    \/ CreateTransaction(Callers, Bodies, Faults)
    \/ UpdateTransaction(Callers, Bodies, UpdateIds, Faults)
    \/ ReturnResponse

SpecTx == InitTx /\ [][NextTx]_vars

\* every way a transaction is persisted
NextPersist ==
    \/ CreateTransaction({Cred(UserA, NoUser)}, AmountBodies, {NoFault})
    \/ UpdateTransaction({Cred(UserA, NoUser)}, AmountBodies,
                         {Str(TxId(k)) : k \in 1..MaxTx}, {NoFault})
    \/ ProcessReceipt({UserA}, AiReplies,
                      {NoFault, Fault("transactions.insert", "error"),
                       Fault("categories.select", "error")})
    \/ ReturnResponse

SpecPersist == InitTx /\ [][NextPersist]_vars

\* the transaction routes on the notes: the store holds a transaction of
\* UserB, transactions of UserA, and has room for one more
InitNotes ==
    /\ call = IdleCall
    /\ today = <<2024, 3, 15>>
    /\ dateRollover = TRUE
    /\ rowLevelSecurity \in BOOLEAN
    /\ config = RECEIPT
    /\ InitLimiter
    /\ transactions =
          [i \in TxIds |->
              IF i = TxId(MaxTx) THEN Undefined
              ELSE [amount |-> Num(50), type |-> Str(Expense),
                    date |-> Str(ISODate(2024, 3, 1)), category |-> Str(CatA),
                    payment_source |-> Str(SrcA), notes |-> Null,
                    image_url |-> Null,
                    user_id |-> Str(IF i = TxId(1) THEN UserB ELSE UserA)]]
    /\ categories = <<CatA, CatB>>
    /\ paymentSources = <<SrcA>>
    /\ resp = IdleResp

NoteCallers == {Cred(UserA, NoUser)}

NextNotes ==
    \/ CreateTransaction(NoteCallers, NoteBodies(CreateNotes), {NoFault})
    \/ UpdateTransaction(NoteCallers, NoteBodies(UpdateNotes),
                         {Str(TxId(k)) : k \in 2..MaxTx}, {NoFault})
    \/ ReturnResponse

SpecNotes == InitNotes /\ [][NextNotes]_vars

\* the receipt route under its limit, for stores with and without catalogs
InitReceipt ==
    /\ call = IdleCall
    /\ today = <<2024, 3, 15>>
    /\ dateRollover = TRUE
    /\ rowLevelSecurity = TRUE
    /\ config = RECEIPT
    /\ InitLimiter
    /\ transactions = [i \in TxIds |-> Undefined]
    /\ categories \in {<<>>, <<CatA, CatB>>}
    /\ paymentSources \in {<<>>, <<SrcA>>}
    /\ resp = IdleResp

NextReceipt ==
    \/ ReceiptRequest(GateCallers, BOOLEAN,
                      {[status |-> 200, content |-> Json(GoodDraft)],
                       [status |-> 200, content |-> NotJson],
                       [status |-> 429, content |-> NoContent],
                       [status |-> 500, content |-> NoContent]})
    \/ Tick(RECEIPT.window, MaxWindows * RECEIPT.window)
    \/ Sweep

SpecReceipt == InitReceipt /\ [][NextReceipt]_vars

\* the scanner and the receipt route on the replies of the model provider
InitScan ==
    /\ call = IdleCall
    /\ today = <<2024, 3, 15>>
    /\ dateRollover = TRUE
    /\ rowLevelSecurity = TRUE
    /\ config = RECEIPT
    /\ InitLimiter
    /\ transactions = [i \in TxIds |-> Undefined]
    /\ categories \in {<<CatA, CatB>>, <<CatB>>}
    /\ paymentSources \in {<<SrcA>>, <<SrcB, SrcA>>}
    /\ resp = IdleResp

NextScan ==
    \/ ProcessReceipt({UserA}, ScanReplies,
                      {NoFault, Fault("transactions.insert", "error"),
                       Fault("payment_sources.select", "error")})
    \/ ReturnResponse

SpecScan == InitScan /\ [][NextScan]_vars

\* the chat route and its requests to the model provider, for a user who
\* has ChatQuota requests left in the current window
ChatQuota == 2

InitChat ==
    /\ call = IdleCall
    /\ today = <<2024, 3, 15>>
    /\ dateRollover = TRUE
    /\ rowLevelSecurity = TRUE
    /\ config = AI_CHAT
    /\ rateLimitStore =
           [EmptyRateLimitStore EXCEPT ![UserA] =
               [count |-> AI_CHAT.limit - ChatQuota,
                resetTime |-> AI_CHAT.window]]
    /\ now = 0
    /\ rl = IdleRl
    /\ win = [u \in Users |-> NoWindow]
    /\ inflight = NoRequests
    /\ chat = NoChat
    /\ InitStore

NextChat ==
    ChatRequest({Cred(UserA, NoUser)}, {TRUE}, RetriesGiven, Upstreams)

SpecChat == InitChat /\ [][NextChat]_vars

\* the limiter and the chat route while statements of the limiter throw
Throws == {"none", "get", "set"}

NextFailOpen ==
    \/ LimiterCallTry(UserA, Throws)
    \/ ChatRequestTry({Cred(UserA, NoUser)}, {<<Http(200)>>, <<Http(429)>>},
                      Throws)
    \/ Tick(AI_CHAT.window \div 2, MaxWindows * AI_CHAT.window)

SpecFailOpen == InitChat /\ [][NextFailOpen]_vars

\* the chat client, from its first render
InitClient ==
    /\ call = IdleCall
    /\ today = <<2024, 3, 15>>
    /\ dateRollover = TRUE
    /\ rowLevelSecurity = TRUE
    /\ config = AI_CHAT
    /\ rateLimitStore = EmptyRateLimitStore
    /\ now = MIN_DELAY
    /\ rl = IdleRl
    /\ win = [u \in Users |-> NoWindow]
    /\ inflight = NoRequests
    /\ chat \in {[mounted |-> TRUE, sessionFirst |-> b, loading |-> FALSE,
                   input |-> FALSE, last |-> 0, awaiting |-> 0,
                   timers |-> {}, flying |-> 0] : b \in BOOLEAN}
    /\ InitStore

NextClient ==
    \/ Type(BOOLEAN)
    \/ PressSend
    \/ ClickQuick
    \/ TimerFires
    \/ SessionResolves(BOOLEAN)
    \/ ChatCompletes
    \/ Tick(MIN_DELAY \div 2, MIN_DELAY + MaxClientTicks * (MIN_DELAY \div 2))

SpecClient == InitClient /\ [][NextClient]_vars

\* every route handled twice with different texts of the errors it meets
ErrorTexts == {FetchFailed, Unexpected429}

TwiceUpstreams ==
    [1..2 -> {Http(200), Http(503), Http(401), Threw(<<>>)}]

TwiceReplies ==
    {[status |-> 200, content |-> Extracted(Num(12), Str(CatB), Null)],
     [status |-> 200, content |-> NotJson],
     [status |-> 429, content |-> NoContent],
     [status |-> 500, content |-> NoContent]}

NextTwice ==
    \/ ChatTwice({Cred(UserA, NoUser)}, TwiceUpstreams, ErrorTexts)
    \/ ReceiptTwice({Cred(UserA, NoUser)}, TwiceReplies,
                    {NoFault, Fault("categories.select", "error")},
                    ErrorTexts)
    \/ CreateTwice({Cred(UserA, NoUser)},
                   {GoodBody, [GoodBody EXCEPT !.amount = Num(-3)]},
                   {NoFault, Fault("categories.select", "error"),
                    Fault("transactions.insert", "error")}, ErrorTexts)
    \/ UpdateTwice({Cred(UserA, NoUser)}, {GoodBody},
                   {Str(TxId(k)) : k \in 1..MaxTx},
                   {NoFault, Fault("transactions.select", "error"),
                    Fault("transactions.update", "throw")}, ErrorTexts)

SpecTwice == InitChat /\ [][NextTwice]_vars

-----------------------------------------------------------------------------
(* Properties *)

\* the issues of a safeParse result that are on the field path
IssuesOn(result, path) ==
    {k \in 1..Len(result.errors) : result.errors[k].path = path}

\* C8: the schema's amount check accepts a number a if and only if
\* 0 < a <= 1,000,000,000; every other number is rejected with an issue on
\* the amount field.
C8_AmountAcceptedIffInRange ==
    (call.fn = "amount" /\ IsNum(call.arg)) =>
        IF 0 < call.arg.n /\ call.arg.n <= MAX_AMOUNT
        THEN call.out.success
        ELSE ~call.out.success /\ IssuesOn(call.out, "amount") # {}

\* C8, reached: zero itself was submitted and rejected on the amount field
C8_ZeroRejected ==
    /\ call.fn = "amount"
    /\ call.arg = Num(0)
    /\ ~call.out.success
    /\ IssuesOn(call.out, "amount") # {}

\* the year, month and day that a text of the form YYYY-MM-DD writes
DateOf(s) ==
    <<DigitVal(s[1]) * 1000 + DigitVal(s[2]) * 100
        + DigitVal(s[3]) * 10 + DigitVal(s[4]),
      DigitVal(s[6]) * 10 + DigitVal(s[7]),
      DigitVal(s[9]) * 10 + DigitVal(s[10])>>

\* the calendar has the date that s writes
RealCalendarDate(s) ==
    /\ DateOf(s)[2] \in 1..12
    /\ DateOf(s)[3] \in 1..DaysInMonth(DateOf(s)[1], DateOf(s)[2])

\* C9: the schema accepts a date string d if and only if d has the form
\* YYYY-MM-DD, names a real calendar date and lies between 1900-01-01 and
\* today + 1 year, both included; every other string is rejected.
C9_DateAcceptedIffRealAndInRange ==
    call.fn = "date" =>
        (call.out.success <=>
            /\ MatchesDateRegex(call.arg.s)
            /\ RealCalendarDate(call.arg.s)
            /\ DateLE(MinDate, DateOf(call.arg.s))
            /\ DateLE(DateOf(call.arg.s), MaxDate))

\* C3: with limit N and window W, the first N requests of a user inside the
\* window that the user's first request opened are allowed, every further
\* request inside it is denied, and the first request after the window has
\* elapsed is allowed and opens a fresh window: count 1, resetTime = its
\* time + W.  (win is the history of the requests, kept apart from the map.)
C3_WindowAllowsExactlyLimit ==
    rl.route = "call" =>
        LET w == win[rl.user]
        IN  /\ rl.result.success <=> w.n <= config.limit
            /\ w.n = 1 => rl.entry = [count |-> 1,
                                      resetTime |-> rl.at + config.window]
            /\ w.n = 1 => w.start = rl.at

\* C3, reached: a user's request is denied in a window that was opened after
\* an earlier window of the same user had elapsed
C3_DeniedInLaterWindow ==
    /\ rl.route = "call"
    /\ ~rl.result.success
    /\ win[rl.user].opened >= 2
    /\ win[rl.user].n = config.limit + 1

\* the last request was a create or an update
TxRequest == resp.route \in {"POST", "PUT"}

\* the store calls that write
Writes == {"transactions.insert", "transactions.update"}

\* the last request sent a write to the store
WriteSent == \E k \in 1..Len(resp.trace) : resp.trace[k] \in Writes

\* the schema's verdict on the body of the last request
Validated ==
    /\ resp.body # BadJson
    /\ transactionSchema(WithUser(resp.body, ResolveUser(resp.cred))).success

\* the last request looked the name up in the catalog, before any write,
\* and the row was there
LookedUp(at, catalog, id) ==
    /\ \E k \in 1..Len(resp.trace) :
          /\ resp.trace[k] = at
          /\ \A j \in 1..k : resp.trace[j] \notin Writes
    /\ resp.fault.at # at
    /\ id.s \in Range(catalog)

\* C1: a create or update request sends a write to the store only if schema
\* validation succeeded and both the category lookup and the payment-source
\* lookup found a row.
C1_WriteOnlyAfterChecks ==
    (TxRequest /\ WriteSent) =>
        /\ Validated
        /\ LookedUp("categories.select", categories, resp.body.category)
        /\ LookedUp("payment_sources.select", paymentSources,
                    resp.body.payment_source)

\* C1, reached: an update passed every check and its write was made
C1_UpdateWritten ==
    /\ resp.route = "PUT"
    /\ resp.write.op = "update"
    /\ resp.response.status = 200
    /\ transactions # resp.before

\* C2: when the body of a create or update request fails schema validation,
\* the request ends with status 400 and the list of field errors, and no
\* store call was made in it.
C2_InvalidBodyNoStoreAccess ==
    (/\ TxRequest
     /\ ResolveUser(resp.cred) # NoUser
     /\ resp.body # BadJson
     /\ resp.route = "PUT" => IsStr(resp.body.id) /\ ~Falsy(resp.body.id)
     /\ ~Validated) =>
        /\ resp.response.status = 400
        /\ resp.response.details # <<>>
        /\ resp.trace = <<>>

\* C5: an update whose target exists and belongs to another user ends with
\* status 403, on the bearer path and on the cookie path, and the record is
\* as it was.  (Stated for a store that shows the record to the requester
\* and answers every call.)
C5_ForeignUpdateForbidden ==
    (/\ resp.route = "PUT"
     /\ ResolveUser(resp.cred) # NoUser
     /\ resp.body # BadJson
     /\ IsStr(resp.body.id)
     /\ resp.body.id.s \in TxIds
     /\ resp.before[resp.body.id.s] # Undefined
     /\ resp.before[resp.body.id.s].user_id # Str(ResolveUser(resp.cred))
     /\ ~rowLevelSecurity
     /\ resp.fault = NoFault) =>
        /\ resp.response.status = 403
        /\ transactions = resp.before

\* the body of the last request with another user_id
OtherUserIds == {Undefined, Str(UserA), Str(UserB), Str(<<"x">>)}

\* C6: the user_id of a transaction written by the create route is the id
\* of the authenticated caller, whatever user_id the body carries: the same
\* request with any other user_id in the body persists the same record.
C6_OwnerIsCaller ==
    (resp.route = "POST" /\ resp.write.op = "insert") =>
        /\ resp.write.row.user_id = Str(ResolveUser(resp.cred))
        /\ \A u \in OtherUserIds :
              POST([bearer |-> resp.cred.bearer, cookie |-> resp.cred.cookie,
                    body |-> [resp.body EXCEPT !.user_id = u],
                    fault |-> resp.fault]).write = resp.write

\* C6, reached: the body named another user and the row is the caller's
C6_ForeignUserIdOverridden ==
    /\ resp.route = "POST"
    /\ resp.write.op = "insert"
    /\ resp.body.user_id = Str(UserB)
    /\ \E i \in TxIds :
          /\ resp.before[i] = Undefined
          /\ transactions[i] # Undefined
          /\ transactions[i].user_id = Str(UserA)

\* C7: every persisted transaction has 0 < amount <= 1,000,000,000,
\* whichever path persisted it: create, update or the receipt scan.
C7_PersistedAmountInRange ==
    \A i \in TxIds :
        transactions[i] # Undefined =>
            /\ IsNum(transactions[i].amount)
            /\ 0 < transactions[i].amount.n
            /\ transactions[i].amount.n <= MAX_AMOUNT

\* whether a chat request of user u at time t would pass the limiter
ChatAllowed(store, u, t) ==
    checkRateLimit(store, u, AI_CHAT, t).result.success

\* C4: the chat requests and the receipt requests of a user are counted in
\* separate entries: a receipt request never changes whether the user's
\* next chat request is allowed.
C4_ReceiptLeavesChatAlone ==
    [][(rl' # rl /\ rl'.route = "receipt") =>
          \A u \in Users :
             ChatAllowed(rateLimitStore', u, now')
                = ChatAllowed(rateLimitStore, u, now)]_vars

\* x holds an HTML tag or an entity
HasMarkup(x) ==
    \/ StripDelimited(x, 1, "<", ">") # x
    \/ StripDelimited(x, 1, "&", ";") # x

\* C10: for every text x that holds HTML tags or entities,
\* sanitizeHtml(sanitizeHtml(x)) equals sanitizeHtml(x), null being distinct
\* from the empty string.
C10_SanitizeIdempotent ==
    (/\ call.fn = "sanitizeHtml"
     /\ call.again
     /\ IsStr(call.first)
     /\ HasMarkup(call.first.s)) => call.out = call.arg

\* s holds a match of open [^close]+ close
HoldsDelimited(s, open, close) ==
    \E i \in 1..Len(s) :
        /\ s[i] = open
        /\ \E j \in (i + 2)..Len(s) :
              /\ s[j] = close
              /\ \A k \in (i + 1)..(j - 1) : s[k] # close

\* s holds <script ... </script>, in any case of the letters
HoldsScriptBlock(s) ==
    \E i \in 1..Len(s) :
        /\ MatchesAt(s, i, ScriptOpen)
        /\ \E j \in (i + 7)..Len(s) : MatchesAt(s, j, ScriptClose)

\* null, or a trimmed text without script block, tag or entity reference
CleanNotes(v) ==
    \/ v = Null
    \/ /\ IsStr(v)
       /\ v.s = <<>> \/ (v.s[1] \notin WhiteSpace
                         /\ v.s[Len(v.s)] \notin WhiteSpace)
       /\ ~HoldsScriptBlock(v.s)
       /\ ~HoldsDelimited(v.s, "<", ">")
       /\ ~HoldsDelimited(v.s, "&", ";")

\* C11: the notes that a create or an update persists are sanitizeHtml of
\* the submitted notes: null, or a trimmed text that holds no script block,
\* no tag <...> and no entity reference &...; (a tag and an entity reference
\* have at least one character between their delimiters).
C11_PersistedNotesSanitized ==
    (TxRequest /\ resp.write.op # "none") =>
        /\ resp.write.row.notes = sanitizeHtml(resp.body.notes)
        /\ CleanNotes(resp.write.row.notes)
        /\ \A i \in TxIds :
              transactions[i] # resp.before[i] =>
                  /\ transactions[i].notes = sanitizeHtml(resp.body.notes)
                  /\ CleanNotes(transactions[i].notes)

\* C11, reached: <script>alert(1)</script>Lunch was created as Lunch
C11_ScriptNoteStoredAsLunch ==
    /\ resp.route = "POST"
    /\ resp.body.notes
          = Str(ScriptOpen \o <<">">> \o Alert \o ScriptClose \o Lunch)
    /\ \E i \in TxIds :
          /\ resp.before[i] = Undefined
          /\ transactions[i] # Undefined
          /\ transactions[i].notes = Str(Lunch)

\* the length of the text v, 0 for null
NotesLength(v) == IF IsStr(v) THEN Len(v.s) ELSE 0

\* C12: the notes of a create or update payload (the rest of it valid, the
\* target of the update the caller's own) are accepted if and only if
\* sanitizeHtml of the notes has at most 1000 characters.
C12_NotesBoundOnSanitizedText ==
    (/\ TxRequest
     /\ IsStr(resp.body.notes)
     /\ resp.route = "PUT" =>
           /\ resp.before[resp.body.id.s] # Undefined
           /\ resp.before[resp.body.id.s].user_id
                 = Str(ResolveUser(resp.cred))) =>
        (resp.write.op # "none"
            <=> NotesLength(sanitizeHtml(resp.body.notes)) <= MAX_NOTES)

\* the fields of the body that the schema constrains (user_id is replaced
\* by the caller's id before the schema sees the body)
ConstrainedFields ==
    {"amount", "type", "date", "category", "payment_source", "notes",
     "image_url"}

\* the value v meets the constraint of the field, as the field validators
\* have it
MeetsConstraint(field, v) ==
    CASE field = "amount" -> IsNum(v) /\ 0 < v.n /\ v.n <= MAX_AMOUNT
      [] field = "type" -> IsStr(v) /\ v.s \in {Income, Expense}
      [] field = "date" -> IsStr(v) /\ validateDate(v.s)
      [] field \in {"category", "payment_source"} -> IsStr(v) /\ IsUuid(v.s)
      [] field = "notes" ->
           v \in {Undefined, Null} \/ (IsStr(v) /\ Len(v.s) <= MAX_NOTES)
      [] field = "image_url" ->
           v \in {Undefined, Null} \/ (IsStr(v) /\ IsUrl(v.s))

ViolatedFields(body) ==
    {f \in ConstrainedFields : ~MeetsConstraint(f, body[f])}

\* the response is the list of field errors
ValidationFailed(response) ==
    response.status = 400 /\ response.error = "Invalid transaction data"

\* the last request got as far as the schema: the caller is known, the body
\* parsed and, for an update, the target is a record of the caller
ReachedSchema ==
    /\ TxRequest
    /\ ResolveUser(resp.cred) # NoUser
    /\ resp.body # BadJson
    /\ resp.route = "PUT" =>
          /\ IsStr(resp.body.id)
          /\ resp.body.id.s \in TxIds
          /\ resp.before[resp.body.id.s] # Undefined
          /\ resp.before[resp.body.id.s].user_id = Str(ResolveUser(resp.cred))
          /\ resp.fault.at # "transactions.select"

\* C13: when the payload of a create or update violates the constraints of
\* k >= 1 fields, nothing is persisted, a request that got as far as the
\* schema answers with the list of field errors, and that list has an entry
\* for each of the k fields, not only for the first.
C13_EveryViolatedFieldListed ==
    (/\ TxRequest
     /\ ResolveUser(resp.cred) # NoUser
     /\ resp.body # BadJson
     /\ ViolatedFields(resp.body) # {}) =>
        /\ resp.write.op = "none"
        /\ transactions = resp.before
        /\ ReachedSchema => ValidationFailed(resp.response)
        /\ ValidationFailed(resp.response) =>
              \A f \in ViolatedFields(resp.body) :
                 \E k \in 1..Len(resp.response.details) :
                    /\ resp.response.details[k].path = f
                    /\ resp.response.details[k].message # ""

\* C13, reached: an update of the caller's own record with two fields wrong
\* was answered with an entry for each
C13_TwoFieldsListed ==
    /\ resp.route = "PUT"
    /\ ReachedSchema
    /\ ViolatedFields(resp.body) = {"amount", "date"}
    /\ ValidationFailed(resp.response)
    /\ \E j, k \in 1..Len(resp.response.details) :
          /\ resp.response.details[j].path = "amount"
          /\ resp.response.details[k].path = "date"

\* the id is a UUID that names no row of the catalog
Dangling(id, catalog) ==
    IsStr(id) /\ IsUuid(id.s) /\ id.s \notin Range(catalog)

\* C14: in a create or update whose lookups the store answered, a category
\* id (or a payment-source id) that is a UUID without a row visible to the
\* caller ends the request with status 400 and a message naming the field
\* (the category when both dangle), and no write is sent.
C14_DanglingReferenceRejected ==
    (/\ TxRequest
     /\ resp.fault = NoFault
     /\ \E k \in 1..Len(resp.trace) : resp.trace[k] = "categories.select"
     /\ \/ Dangling(resp.body.category, categories)
        \/ Dangling(resp.body.payment_source, paymentSources)) =>
        /\ resp.response.status = 400
        /\ resp.response.error =
              IF Dangling(resp.body.category, categories)
              THEN "Invalid category selected"
              ELSE "Invalid payment source selected"
        /\ ~WriteSent
        /\ resp.write.op = "none"
        /\ transactions = resp.before

\* C14, reached: the category has a row, the payment source has none, and
\* the update of the caller's own record was refused
C14_UnknownPaymentSourceRefused ==
    /\ resp.route = "PUT"
    /\ resp.fault = NoFault
    /\ resp.body # BadJson
    /\ ~Dangling(resp.body.category, categories)
    /\ Dangling(resp.body.payment_source, paymentSources)
    /\ resp.response.status = 400
    /\ resp.response.error = "Invalid payment source selected"
    /\ resp.trace = <<"transactions.select", "categories.select",
                      "payment_sources.select">>

\* C15: on every endpoint (create, update, receipt scan, chat) a request
\* without a valid credential ends with status 401 whatever its body is,
\* changes no entry of the rate limiter, makes no store call and no request
\* to the model provider.
C15_NoCredentialUnauthenticated ==
    [][/\ (/\ resp' # resp
           /\ resp'.route \in {"POST", "PUT"}
           /\ ResolveUser(resp'.cred) = NoUser) =>
              /\ resp'.response.status = 401
              /\ resp'.trace = <<>>
              /\ transactions' = transactions
              /\ rateLimitStore' = rateLimitStore
       /\ (/\ rl' # rl
           /\ rl'.route \in {"receipt", "chat"}
           /\ rl'.user = NoUser) =>
              /\ rl'.status = 401
              /\ rl'.aiCalls = 0
              /\ rateLimitStore' = rateLimitStore
              /\ transactions' = transactions]_vars

\* the limiter's entry lets one more request of the receipt route through
\* at time t
ReceiptQuotaLeft(entry, t) ==
    \/ entry = Undefined
    \/ entry.resetTime < t
    \/ entry.count < RECEIPT.limit

\* C16: the receipt route sends at most one request to the model provider
\* per request, and only when the caller is authenticated, the limiter let
\* the request through and both catalogs are non-empty: a request that the
\* limiter denies or that finds an empty catalog sends none.
C16_VisionCalledOnceAfterGates ==
    [][(rl' # rl /\ rl'.route = "receipt") =>
          /\ rl'.aiCalls \in {0, 1}
          /\ rl'.aiCalls = 1 =>
                /\ rl'.user # NoUser
                /\ ReceiptQuotaLeft(rateLimitStore[rl'.user], now)
                /\ categories # <<>>
                /\ paymentSources # <<>>
          /\ (rl'.user # NoUser
              /\ ~ReceiptQuotaLeft(rateLimitStore[rl'.user], now)) =>
                /\ rl'.status \in {400, 429}
                /\ rl'.aiCalls = 0
                /\ rateLimitStore' = rateLimitStore
          /\ (categories = <<>> \/ paymentSources = <<>>) =>
                rl'.status \in {400, 401, 429} /\ rl'.aiCalls = 0]_vars

\* C16, reached: the last request that the limit allows in a window got its
\* draft from one request to the model provider
C16_TwentiethRequestServed ==
    /\ rl.route = "receipt"
    /\ rl.user = UserA
    /\ rl.status = 200
    /\ rl.aiCalls = 1
    /\ rl.store[UserA].count = RECEIPT.limit

\* what the reply of the last scan parses to
ScanParsed == JSONParse(Unfenced(resp.body.content))

\* the id is an entry of the catalog: the picked one when the catalog has
\* it, else the first
FromCatalog(id, picked, catalog) ==
    /\ IsStr(id)
    /\ id.s \in Range(catalog)
    /\ id = IF IsStr(picked) /\ picked.s \in Range(catalog) THEN picked
            ELSE Str(catalog[1])

\* C17: for every reply that parses, the category and the payment source of
\* the draft that the receipt route returns are ids of the catalogs fetched
\* for the request: the model's id when a catalog entry has it, else the id
\* of the first entry.
C17_DraftIdsFromCatalog ==
    (resp.route = "scan" /\ resp.response.status = 200) =>
        /\ FromCatalog(resp.response.data.category,
                       Properties(ScanParsed).category, categories)
        /\ FromCatalog(resp.response.data.payment_source,
                       Properties(ScanParsed).payment_source, paymentSources)

\* C17, reached: the model picked a category that the catalog does not have
\* and the draft, and the row made from it, carry the first category
C17_UnknownCategoryReplaced ==
    /\ resp.route = "scan"
    /\ resp.response.status = 200
    /\ ScanParsed.t = "object"
    /\ ScanParsed.o.category = Str(Ghost)
    /\ resp.response.data.category = Str(categories[1])
    /\ resp.write.op = "insert"
    /\ resp.write.row.category = Str(categories[1])

\* C18: when the reply of the model provider, taken out of its code fence,
\* is not a JSON object (text that does not parse, or a JSON value that is
\* not an object), the receipt route ends with an error and returns no
\* draft.  (For requests that got a reply: the limiter allowed them and the
\* catalogs were not empty.)
C18_NotAnObjectNoDraft ==
    (/\ resp.route = "scan"
     /\ resp.body.status = 200
     /\ resp.response.status # 429
     /\ resp.response.error # SetUpFirst
     /\ ScanParsed.t # "object") =>
        /\ resp.response.status = 500
        /\ resp.response.data = Undefined
        /\ resp.write.op = "none"

\* the attempts that the loop of the last chat request may make
RetriesOf(request) ==
    IF request.retries = Undefined THEN 3 ELSE request.retries.n

\* C19: in the chat route, when the model provider answers 429 on an
\* attempt, that attempt is the request's last one and the request ends
\* with status 429.
C19_Upstream429NotRetried ==
    rl.route = "chat" =>
        \A k \in 1..rl.aiCalls :
            ReplyAt(rl.upstream, k).status = 429 =>
                /\ rl.aiCalls = k
                /\ rl.status = 429
                /\ Len(rl.waits) = k - 1

\* C19, reached: the second attempt, made after a 503, was answered 429 and
\* no third attempt followed
C19_SecondAttempt429Ends ==
    /\ rl.route = "chat"
    /\ rl.upstream = <<Http(503), Http(429)>>
    /\ RetriesOf(rl) = 3
    /\ rl.aiCalls = 2
    /\ rl.status = 429

\* C20: in the chat route, a 5xx answer and a fetch that throws, on an
\* attempt that is not the last, are each followed by another attempt after
\* a delay of 2^attempt seconds (attempt counted from 0); no other outcome
\* (2xx, 4xx) is followed by another attempt.
C20_RetriedIffTransient ==
    rl.route = "chat" =>
        \A k \in 1..rl.aiCalls :
            IF \/ ReplyAt(rl.upstream, k).status >= 500
               \/ ReplyAt(rl.upstream, k).status = 0
            THEN k < RetriesOf(rl) =>
                    /\ rl.aiCalls > k
                    /\ Len(rl.waits) >= k
                    /\ rl.waits[k] = 2 ^ (k - 1) * 1000
            ELSE rl.aiCalls = k

\* C21: the requests that one chat request sends to the model provider are
\* never more than 3, whatever the request body holds.
C21_AtMostThreeUpstreamCalls ==
    rl.route = "chat" => rl.aiCalls <= 3

\* the statement named by rl.threw was reached and threw: a get is always
\* reached, a set on the paths that open a window or increment
LimiterFailed ==
    /\ rl # IdleRl
    /\ \/ rl.threw = "get"
       \/ /\ rl.threw = "set"
          /\ \/ rl.before = Undefined
             \/ rl.before.resetTime < rl.at
             \/ rl.before.count < config.limit

\* C22: when a statement of checkRateLimit throws, the call returns
\* success = true, and the chat request that made the call goes on to the
\* model provider: it is not answered 429 by the limiter.
C22_LimiterFailsOpen ==
    LimiterFailed =>
        /\ rl.route = "call" => rl.result.success
        /\ rl.route = "chat" =>
              /\ rl.aiCalls >= 1
              /\ ~(rl.status = 429 /\ rl.aiCalls = 0)

\* C22, reached: the user's quota was used up by increments whose set threw,
\* and a chat request whose get throws is served
C22_ServedOverQuota ==
    /\ rl.route = "chat"
    /\ rl.threw = "get"
    /\ rl.before # Undefined
    /\ rl.before.resetTime >= rl.at
    /\ rl.before.count >= AI_CHAT.limit
    /\ rl.status = 200

\* C23: no response of an API route carries store error text, upstream
\* error text or exception text: two runs of the same request from the same
\* state that differ only in those texts return identical responses.
C23_ResponsesIgnoreErrorTexts ==
    rl.route = "twice" => rl.first = rl.second

\* C24: an update whose body holds an id that is a string but not a UUID
\* ends with ValidationFailed, and no store call is made in it.
C24_NonUuidIdRejected ==
    (/\ resp.route = "PUT"
     /\ ResolveUser(resp.cred) # NoUser
     /\ resp.body # BadJson
     /\ IsStr(resp.body.id)
     /\ ~Falsy(resp.body.id)
     /\ ~IsUuid(resp.body.id.s)) =>
        /\ ValidationFailed(resp.response)
        /\ resp.trace = <<>>

\* C25: for any interleaving of concurrent requests of one user, each
\* checkRateLimit call being one uninterrupted turn, no increment is lost:
\* the requests allowed inside one window are never more than the limit.
\* (win counts the calls of the window; the k-th is allowed only for
\* k <= limit, and the count of the entry is the number allowed.)
C25_NoLostUpdate ==
    rl.route = "call" =>
        /\ rl.result.success => win[rl.user].n <= config.limit
        /\ rl.entry.count = IF win[rl.user].n <= config.limit
                            THEN win[rl.user].n ELSE config.limit

\* C25, reached: with limit 2, a request is denied while the two requests
\* allowed before it in the window are still awaiting their upstream answers
C25_DeniedWhileTwoInFlight ==
    /\ rl.route = "call"
    /\ config.limit = 2
    /\ ~rl.result.success
    /\ Cardinality({s \in Slots : inflight[s].at = "upstream"}) = 2

\* what the calls of a user alone determine: the result of the call that is
\* the n-th of the window w under cfg
OwnResult(w, cfg) ==
    IF w.n <= cfg.limit
    THEN [success |-> TRUE, resetTime |-> Absent,
          remaining |-> cfg.limit - w.n]
    ELSE [success |-> FALSE, resetTime |-> w.start + cfg.window,
          remaining |-> Absent]

\* C26: a checkRateLimit call for a user leaves the entry of every other
\* user unchanged, and the result it returns is determined by the user's
\* own calls (win[u], the history of u's calls), whatever calls other users
\* make.
C26_UsersDoNotContend ==
    [][\A u \in Users :
          win'[u] # win[u] =>
              /\ \A v \in Users \ {u} :
                    rateLimitStore'[v] = rateLimitStore[v]
              /\ rl'.user = u
              /\ rl'.result = OwnResult(win'[u], config)]_vars

\* C26, reached: a user's first call is allowed while the other user has
\* used up the limit and has been denied in the window that is still open
C26_AllowedBesideDeniedUser ==
    /\ rl.route = "call"
    /\ rl.user = UserB
    /\ rl.result.success
    /\ win[UserB].n = 1
    /\ win[UserA].n > config.limit
    /\ rateLimitStore[UserA] # Undefined
    /\ rateLimitStore[UserA].resetTime >= now

\* C28: a denied checkRateLimit call leaves the user's entry unchanged and
\* reports as resetTime the time of the first request of the current window
\* plus the window length; no later request of that window, allowed or
\* denied, moves the entry's resetTime.
C28_DenialLeavesEntry ==
    [][\A u \in Users :
          win'[u] # win[u] =>
              /\ ~rl'.result.success =>
                    /\ rateLimitStore'[u] = rateLimitStore[u]
                    /\ rl'.result.resetTime = win'[u].start + config.window
              /\ win'[u].n > 1 =>
                    /\ rateLimitStore[u] # Undefined
                    /\ rateLimitStore'[u].resetTime
                          = rateLimitStore[u].resetTime
                    /\ rateLimitStore'[u].resetTime
                          = win'[u].start + config.window]_vars

\* C28, reached: the second denied request of a window, later than the
\* window's first request, reports the first request's time plus the window
C28_SecondDenialSameReset ==
    /\ rl.route = "call"
    /\ ~rl.result.success
    /\ win[rl.user].n = config.limit + 2
    /\ rl.at > win[rl.user].start
    /\ rl.result.resetTime = win[rl.user].start + config.window
    /\ rl.entry.count = config.limit

\* the entry of k has a resetTime earlier than t
Expired(store, k, t) == store[k] # Undefined /\ store[k].resetTime < t

\* C29: the sweep deletes exactly the entries whose resetTime is earlier
\* than the sweep time, and running it between requests never changes the
\* result of a later checkRateLimit call: the next call at any later time
\* returns the same object with and without a sweep now, and every call's
\* result is the one determined by the history of calls alone, wherever
\* sweeps ran.
C29_SweepExactAndUnobservable ==
    /\ \A k \in Users :
          sweep(rateLimitStore, now)[k]
             = IF Expired(rateLimitStore, k, now) THEN Undefined
               ELSE rateLimitStore[k]
    /\ \A u \in Users, t \in now..MaxTime :
          checkRateLimit(sweep(rateLimitStore, now), u, config, t).result
             = checkRateLimit(rateLimitStore, u, config, t).result
    /\ rl.route = "call" => rl.result = OwnResult(win[rl.user], config)

\* C29, reached: a sweep has deleted the elapsed entry of one user and kept
\* the entry of the other, who is then denied
C29_DeniedAfterSweep ==
    /\ rl.route = "call"
    /\ rl.user = UserA
    /\ ~rl.result.success
    /\ rateLimitStore[UserB] = Undefined
    /\ win[UserB].n >= 1
    /\ win[UserB].start < win[UserA].start

\* C30: window expiry is strict.  A call of a user who has an entry, made at
\* a time not later than the entry's resetTime (also at exactly resetTime),
\* is counted against the old window: denied with the entry unchanged when
\* count >= limit, otherwise allowed with the count incremented and the
\* resetTime kept.  A new window (count 1, resetTime = now + window) starts
\* only when now > resetTime; the sweep, too, keeps an entry at
\* now = resetTime.
C30_ExpiryIsStrict ==
    [][\A u \in Users :
          (win'[u] # win[u] /\ rateLimitStore[u] # Undefined) =>
              /\ sweep(rateLimitStore, rateLimitStore[u].resetTime)[u]
                    = rateLimitStore[u]
              /\ IF now > rateLimitStore[u].resetTime
                 THEN /\ rl'.result.success
                      /\ rateLimitStore'[u]
                            = [count |-> 1, resetTime |-> now + config.window]
                 ELSE IF rateLimitStore[u].count >= config.limit
                 THEN /\ ~rl'.result.success
                      /\ rateLimitStore'[u] = rateLimitStore[u]
                 ELSE /\ rl'.result.success
                      /\ rateLimitStore'[u]
                            = [count |-> rateLimitStore[u].count + 1,
                               resetTime |-> rateLimitStore[u].resetTime]]_vars

\* C30, reached: a request at exactly resetTime is denied
C30_DeniedAtResetTime ==
    /\ rl.route = "call"
    /\ ~rl.result.success
    /\ rl.at = rl.result.resetTime

\* C27: in the chat client, under any timing of sends (Enter key, send
\* button, quick-question buttons) and of asynchronous completions, no chat
\* request is dispatched while an earlier one of the client is in flight.
C27_NoOverlappingChatRequests ==
    chat.mounted => chat.flying <= 1

=============================================================================
